---- MODULE Spec2Model ----
(***************************************************************************)
(* V2I traffic simulation engine (SimulationProvider).                     *)
(*                                                                         *)
(* Four revisions of the provider are modelled and selected by `revision`: *)
(*   "A"  src/src/contexts/SimulationContext.js                            *)
(*   "B"  src/unnamed/part_005, second provider (lines 1347-2419), the     *)
(*        revision that plans the turn intersection at spawn.              *)
(*   "C"  src/unnamed/part_005, first provider (lines 1-1346): two-phase   *)
(*        signals, RoadGrid lane geometry, bezier turn paths.              *)
(*   "D"  src/unnamed/part_004: two-phase signals with a yellow phase.     *)
(*                                                                         *)
(* Units.  Coordinates are kept in twentieths of a pixel (Px(n) = 20 n),   *)
(* so that every per-tick displacement speed * multiplier * {1, 0.8} is an *)
(* integer.  simulationSpeed holds twice the multiplier (1..6 for 0.5x to  *)
(* 3x), vehicle speed holds ten times the pixel speed (40, 20, 15).        *)
(* Distances are compared through their squares.  Timers are milliseconds.*)
(***************************************************************************)
EXTENDS Integers, Sequences, FiniteSets, TLC

VARIABLES
    revision,            \* which provider source is running ("A", "B", "C", "D")
    isPaused,            \* useState(false)
    simulationSpeed,     \* useState(1), stored as twice the multiplier
    vehicles,            \* useState([]): sequence of vehicle records
    intersections,       \* useState([]) after the initialising effect
    emergencyActive,     \* useState(false)
    communicationLinks,  \* useState([])
    v2iMessages,         \* useState([])
    statistics,          \* useState({totalVehicles, emergencyEvents, ...})
    effectPending,       \* the [vehicles] effect is queued after a commit
    timerCalls,          \* interval callbacks run so far (not counted in revision A)
    call,                \* one call of a helper function: arguments and result
    heldGreen            \* history: per intersection, the directions that last held GREEN

vars == <<revision, isPaused, simulationSpeed, vehicles, intersections,
          emergencyActive, communicationLinks, v2iMessages, statistics,
          effectPending, timerCalls, call, heldGreen>>

----------------------------------------------------------------------------
(* Arithmetic helpers                                                      *)

Px(n) == 20 * n

Sq(a) == a * a

Abs(a) == IF a < 0 THEN 0 - a ELSE a

\* Math.pow(ax - bx, 2) + Math.pow(ay - by, 2), the square of Math.sqrt(...)
DistSq(ax, ay, bx, by) == Sq(ax - bx) + Sq(ay - by)

\* distance < t  and  distance > t  for a threshold t in pixels
Closer(d2, t) == d2 < Sq(Px(t))

Farther(d2, t) == d2 > Sq(Px(t))

RECURSIVE SqrtSearch(_, _, _)
SqrtSearch(n, lo, hi) ==
    IF lo >= hi THEN lo
    ELSE LET mid == (lo + hi + 1) \div 2
         IN  IF mid * mid <= n THEN SqrtSearch(n, mid, hi)
                               ELSE SqrtSearch(n, lo, mid - 1)

\* floor(Math.sqrt(n)) for 0 <= n < 2^31
ISqrt(n) == SqrtSearch(n, 0, 46340)

\* round-half-away-from-zero of a / b, b > 0
RoundDiv(a, b) ==
    IF a >= 0 THEN (2 * a + b) \div (2 * b)
              ELSE 0 - ((2 * (0 - a) + b) \div (2 * b))

----------------------------------------------------------------------------
(* Program constants                                                       *)

SAFE_DISTANCE == 40
LANE_TOLERANCE == 15
INTERSECTION_CHECK_DISTANCE == 80
EMERGENCY_CLEAR_DISTANCE == 200
DETECTION_DISTANCE == 200
PREEMPTION_MIN_DISTANCE == 50
INTERSECTION_SIZE == 120
EMERGENCY_STOP_THRESHOLD == 30
TURN_DIRECTION_SWITCH_DISTANCE == 80
WAYPOINT_REACH_DISTANCE == 10
DESTINATION_REACH_DISTANCE == 5

\* TIMING.GREEN / TIMING.YELLOW of each revision
TimingGreen(rev) == IF rev = "A" THEN 8000 ELSE 30000

TimingYellow(rev) == IF rev = "A" THEN 2000 ELSE 3000

\* the slider of the control panel: min 0.5, max 3, step 0.5 (doubled)
AllowedSpeeds == 1 .. 6

DirKeys == {"north", "south", "east", "west"}

\* direction.toLowerCase()
Lower(d) ==
    CASE d = "NORTH" -> "north"
      [] d = "SOUTH" -> "south"
      [] d = "EAST"  -> "east"
      [] d = "WEST"  -> "west"

IntersectionIds == 1 .. 4

\* x and y of the four intersections (fixed for the whole run)
IntersectionX(rev, id) ==
    CASE rev = "A" -> (IF id \in {1, 3} THEN Px(310) ELSE Px(610))
      [] rev = "D" -> (IF id \in {1, 3} THEN Px(300) ELSE Px(600))
      [] OTHER     -> (IF id \in {1, 3} THEN Px(490) ELSE Px(990))

IntersectionY(rev, id) ==
    CASE rev = "A" -> (IF id \in {1, 2} THEN Px(210) ELSE Px(510))
      [] rev = "D" -> (IF id \in {1, 2} THEN Px(200) ELSE Px(500))
      [] OTHER     -> (IF id \in {1, 2} THEN Px(290) ELSE Px(690))

\* the direction that starts GREEN at each intersection
InitialGreen(id) ==
    CASE id = 1 -> "north" [] id = 2 -> "east" [] id = 3 -> "south" [] id = 4 -> "west"

\* lastGreenDirection as initialised (absent in revision A)
InitialLastGreen(rev, id) ==
    IF rev = "A" THEN "undefined"
    ELSE CASE id = 1 -> "west" [] id = 2 -> "north" [] id = 3 -> "east" [] id = 4 -> "south"

\* TIMING.PHASE_DURATION of revision C; TIMING.GREEN / YELLOW of revision D
PHASE_DURATION == 30000

OriginalGreen == 8000

OriginalYellow == 2000

\* the signals object of the two-phase system: one axis GREEN, the other RED
TwoPhaseSignals(phase) ==
    [d \in DirKeys |->
        IF (d \in {"north", "south"}) <=> (phase = "north-south")
        THEN "GREEN" ELSE "RED"]

\* the phase each intersection starts in (revisions C and D)
InitialPhase(id) == IF id \in {1, 3} THEN "north-south" ELSE "east-west"

InitialIntersection(rev, id) ==
    CASE rev = "C" ->
           [ currentPhase           |-> InitialPhase(id),
             phaseTime              |-> 0,
             phaseDuration          |-> PHASE_DURATION,
             signals                |-> TwoPhaseSignals(InitialPhase(id)),
             emergencyOverride      |-> FALSE,
             emergencyTurnDirection |-> "undefined" ]
      [] rev = "D" ->
           [ phase |-> IF InitialPhase(id) = "north-south" THEN "NS_GREEN" ELSE "EW_GREEN",
             timer |-> OriginalGreen,
             emergencyOverride |-> FALSE ]
      [] OTHER ->
           [ signals |-> [d \in DirKeys |->
                            IF d = InitialGreen(id)
                            THEN [phase |-> "GREEN", timer |-> TimingGreen(rev)]
                            ELSE [phase |-> "RED",
                                  timer |-> IF rev = "A" THEN 0 ELSE TimingGreen(rev)]],
             emergencyOverride      |-> FALSE,
             emergencyTurnDirection |-> "undefined",
             lastGreenDirection     |-> InitialLastGreen(rev, id) ]

----------------------------------------------------------------------------
(* RoadGrid: the lane geometry of src/unnamed/part_005 (lines 14-98)       *)

\* this.laneWidth = 45
LaneWidth == Px(45)

RoadIndices == {0, 1}

\* this.verticalRoads[i].centerX and this.horizontalRoads[i].centerY
VerticalRoadCenterX(roadIndex) == IF roadIndex = 0 THEN Px(470) ELSE Px(970)

HorizontalRoadCenterY(roadIndex) == IF roadIndex = 0 THEN Px(270) ELSE Px(670)

\* a faulty geometry that puts lane 2 of SOUTH on the NORTH side of the road;
\* C16 has to tell it from GetVerticalRoadLaneX
GetVerticalRoadLaneXCrossed(roadIndex, lane, direction) ==
    IF roadIndex < 0 \/ roadIndex >= Cardinality(RoadIndices)
    THEN VerticalRoadCenterX(0)
    ELSE IF direction = "NORTH"
         THEN VerticalRoadCenterX(roadIndex)
                  + (IF lane = 1 THEN LaneWidth \div 2 ELSE (LaneWidth * 3) \div 2)
         ELSE IF lane = 1 THEN VerticalRoadCenterX(roadIndex) - LaneWidth \div 2
                          ELSE VerticalRoadCenterX(roadIndex) + LaneWidth \div 2

\* getVerticalRoadLaneX(roadIndex, lane, direction): an index outside the
\* array is logged and answered with the centre line of road 0; any lane
\* other than 1 is lane 2; any direction other than NORTH is SOUTH
GetVerticalRoadLaneX(roadIndex, lane, direction) ==
    IF roadIndex < 0 \/ roadIndex >= Cardinality(RoadIndices)
    THEN VerticalRoadCenterX(0)
    ELSE IF direction = "NORTH"
         THEN VerticalRoadCenterX(roadIndex)
                  + (IF lane = 1 THEN LaneWidth \div 2 ELSE (LaneWidth * 3) \div 2)
         ELSE VerticalRoadCenterX(roadIndex)
                  - (IF lane = 1 THEN LaneWidth \div 2 ELSE (LaneWidth * 3) \div 2)

\* getHorizontalRoadLaneY(roadIndex, lane, direction): EAST above the centre
\* line, every other direction below it
GetHorizontalRoadLaneY(roadIndex, lane, direction) ==
    IF roadIndex < 0 \/ roadIndex >= Cardinality(RoadIndices)
    THEN HorizontalRoadCenterY(0)
    ELSE IF direction = "EAST"
         THEN HorizontalRoadCenterY(roadIndex)
                  - (IF lane = 1 THEN LaneWidth \div 2 ELSE (LaneWidth * 3) \div 2)
         ELSE HorizontalRoadCenterY(roadIndex)
                  + (IF lane = 1 THEN LaneWidth \div 2 ELSE (LaneWidth * 3) \div 2)

\* findRoadIndexAfterTurn(intersectionId, newDirection): this.intersections
\* holds ids 1..4 at (490, 290), (990, 290), (490, 690), (990, 690)
FindRoadIndexAfterTurn(intersectionId, newDirection) ==
    IF intersectionId \notin IntersectionIds THEN 0
    ELSE IF newDirection \in {"NORTH", "SOUTH"}
         THEN (IF IntersectionX("C", intersectionId) < Px(750) THEN 0 ELSE 1)
         ELSE (IF IntersectionY("C", intersectionId) < Px(500) THEN 0 ELSE 1)

\* the arguments handed to RoadGrid: indices around the valid range 0..1,
\* lanes around the valid range 1..2, the four directions and a misspelt one
RoadGridRoadIndices == -1 .. 2

RoadGridLanes == 0 .. 3

RoadGridDirections == {"NORTH", "SOUTH", "EAST", "WEST", "north"}

RoadGridIntersectionIds == 0 .. 5

NoCall == [method |-> "none", roadIndex |-> 0, lane |-> 0, direction |-> "NORTH",
           intersectionId |-> 0, x |-> 0, y |-> 0,
           returned |-> FALSE, rejected |-> FALSE, value |-> 0]

\* a call that has been issued and has not returned yet
PendingCalls ==
    { [NoCall EXCEPT !.method = m, !.roadIndex = i, !.lane = l, !.direction = d] :
          m \in {"getVerticalRoadLaneX", "getHorizontalRoadLaneY"},
          i \in RoadGridRoadIndices, l \in RoadGridLanes, d \in RoadGridDirections }
    \cup
    { [NoCall EXCEPT !.method = "findRoadIndexAfterTurn", !.intersectionId = id,
                     !.direction = d] :
          id \in RoadGridIntersectionIds, d \in RoadGridDirections }

\* the three methods return a number on every path: none of them throws
ReturnFrom(value) ==
    /\ ~call.returned
    /\ call' = [call EXCEPT !.returned = TRUE, !.rejected = FALSE, !.value = value]
    /\ UNCHANGED <<revision, isPaused, simulationSpeed, vehicles, intersections,
                   emergencyActive, communicationLinks, v2iMessages, statistics,
                   effectPending, timerCalls, heldGreen>>

CallGetVerticalRoadLaneX ==
    /\ call.method = "getVerticalRoadLaneX"
    /\ ReturnFrom(GetVerticalRoadLaneX(call.roadIndex, call.lane, call.direction))

CallGetHorizontalRoadLaneY ==
    /\ call.method = "getHorizontalRoadLaneY"
    /\ ReturnFrom(GetHorizontalRoadLaneY(call.roadIndex, call.lane, call.direction))

CallFindRoadIndexAfterTurn ==
    /\ call.method = "findRoadIndexAfterTurn"
    /\ ReturnFrom(FindRoadIndexAfterTurn(call.intersectionId, call.direction))

----------------------------------------------------------------------------
(* Interval scheduling                                                     *)
(*                                                                         *)
(* Revision A: the callbacks of setInterval(..., 100) and                  *)
(* setInterval(..., 50) may run in any order (its signals only change on a *)
(* timer expiry, so every order is explored).  Revisions B, C and D: the   *)
(* signals count on every tick, and the callbacks are taken in the order   *)
(* of their periods, per 100 ms: vehicles (50), signals (100), vehicles    *)
(* (100), up to MaxTimerCalls callbacks.                                   *)

MaxTimerCalls == 700

SignalIntervalDue ==
    revision # "A" => (timerCalls % 3 = 1 /\ timerCalls < MaxTimerCalls)

VehicleIntervalDue ==
    revision # "A" => (timerCalls % 3 # 1 /\ timerCalls < MaxTimerCalls)

NextTimerCalls == IF revision # "A" THEN timerCalls + 1 ELSE timerCalls

----------------------------------------------------------------------------
(* Signal controller: the 100 ms interval                                  *)

DirectionOrder == <<"north", "east", "south", "west">>

\* directionOrder[(directionOrder.indexOf(lastGreen || 'west') + 1) % 4]
NextDirection(lastGreen) ==
    CASE lastGreen = "north" -> "east"
      [] lastGreen = "east"  -> "south"
      [] lastGreen = "south" -> "west"
      [] OTHER               -> "north"

AllRed(signals) == \A d \in DirKeys : signals[d].phase = "RED"

\* a faulty iteration that takes an expired GREEN straight to RED; C34 has to
\* tell it from UpdateDirection
UpdateDirectionSkippingYellow(rev, speed, st, direction) ==
    LET signal   == st.signals[direction]
        newTimer == signal.timer - 50 * speed
    IN  IF newTimer <= 0
        THEN CASE signal.phase \in {"GREEN", "YELLOW"} ->
                    [st EXCEPT !.updated = TRUE,
                               !.signals[direction] =
                                   [phase |-> "RED", timer |-> TimingGreen(rev)]]
               [] OTHER ->
                    IF AllRed(st.signals)
                    THEN IF direction = NextDirection(st.last)
                         THEN [st EXCEPT !.updated = TRUE,
                                         !.last = direction,
                                         !.signals[direction] =
                                             [phase |-> "GREEN", timer |-> TimingGreen(rev)]]
                         ELSE [st EXCEPT !.updated = TRUE]
                    ELSE [st EXCEPT !.updated = TRUE,
                                    !.signals[direction].timer = TimingGreen(rev)]
        ELSE [st EXCEPT !.signals[direction].timer = newTimer,
                        !.updated = IF rev = "A" THEN st.updated ELSE TRUE]

\* One iteration of the forEach over the four directions.  st carries
\* newSignals, the (mutated) lastGreenDirection and the `updated` flag.
UpdateDirection(rev, speed, st, direction) ==
    LET signal   == st.signals[direction]
        newTimer == signal.timer - 50 * speed
    IN  IF newTimer <= 0
        THEN CASE signal.phase = "GREEN" ->
                    [st EXCEPT !.updated = TRUE,
                               !.signals[direction] =
                                   [phase |-> "YELLOW", timer |-> TimingYellow(rev)]]
               [] signal.phase = "YELLOW" ->
                    [st EXCEPT !.updated = TRUE,
                               !.signals[direction] =
                                   [phase |-> "RED", timer |-> TimingGreen(rev)]]
               [] OTHER ->
                    IF AllRed(st.signals)
                    THEN IF direction = NextDirection(st.last)
                         THEN [st EXCEPT !.updated = TRUE,
                                         !.last = direction,
                                         !.signals[direction] =
                                             [phase |-> "GREEN", timer |-> TimingGreen(rev)]]
                         ELSE [st EXCEPT !.updated = TRUE]
                    ELSE [st EXCEPT !.updated = TRUE,
                                    !.signals[direction].timer = TimingGreen(rev)]
        ELSE [st EXCEPT !.signals[direction].timer = newTimer,
                        \* revision B marks the countdown as an update
                        !.updated = IF rev = "A" THEN st.updated ELSE TRUE]

\* the four-phase countdown of one intersection (revisions A and B)
AdvanceFourPhase(rev, speed, int) ==
    LET s0 == [signals |-> int.signals, last |-> int.lastGreenDirection,
               updated |-> FALSE]
        s1 == UpdateDirection(rev, speed, s0, "north")
        s2 == UpdateDirection(rev, speed, s1, "south")
        s3 == UpdateDirection(rev, speed, s2, "east")
        s4 == UpdateDirection(rev, speed, s3, "west")
    IN  \* lastGreenDirection is assigned on the object itself
        IF s4.updated
        THEN [int EXCEPT !.signals = s4.signals, !.lastGreenDirection = s4.last]
        ELSE [int EXCEPT !.lastGreenDirection = s4.last]

\* the two-phase timer of revision C: phaseTime counts up to phaseDuration
AdvanceTwoPhase(speed, int) ==
    LET newPhaseTime == int.phaseTime + 50 * speed
        newPhase     == IF int.currentPhase = "north-south" THEN "east-west"
                        ELSE "north-south"
    IN  IF newPhaseTime >= int.phaseDuration
        THEN [int EXCEPT !.currentPhase = newPhase, !.phaseTime = 0,
                         !.signals = TwoPhaseSignals(newPhase)]
        ELSE [int EXCEPT !.phaseTime = newPhaseTime]

\* the two-phase timer of revision D: green, yellow, then the other axis
AdvanceOriginal(speed, int) ==
    LET newTimer == int.timer - 50 * speed
    IN  IF newTimer <= 0
        THEN CASE int.phase = "NS_GREEN"  ->
                    [int EXCEPT !.phase = "NS_YELLOW", !.timer = OriginalYellow]
               [] int.phase = "NS_YELLOW" ->
                    [int EXCEPT !.phase = "EW_GREEN", !.timer = OriginalGreen]
               [] int.phase = "EW_GREEN"  ->
                    [int EXCEPT !.phase = "EW_YELLOW", !.timer = OriginalYellow]
               [] int.phase = "EW_YELLOW" ->
                    [int EXCEPT !.phase = "NS_GREEN", !.timer = OriginalGreen]
               [] OTHER ->
                    [int EXCEPT !.phase = "NS_GREEN", !.timer = OriginalGreen]
        ELSE [int EXCEPT !.timer = newTimer]

AdvanceIntersection(rev, speed, int) ==
    CASE rev = "C" -> AdvanceTwoPhase(speed, int)
      [] rev = "D" -> AdvanceOriginal(speed, int)
      [] OTHER     -> AdvanceFourPhase(rev, speed, int)

\* the directions whose light is GREEN at an intersection
HoldingGreen(rev, int) ==
    CASE rev = "C" -> {d \in DirKeys : int.signals[d] = "GREEN"}
      [] rev = "D" -> (CASE int.phase = "NS_GREEN" -> {"north", "south"}
                         [] int.phase = "EW_GREEN" -> {"east", "west"}
                         [] OTHER                  -> {})
      [] OTHER     -> {d \in DirKeys : int.signals[d].phase = "GREEN"}

\* the history kept next to the intersections: where some direction is GREEN
\* it names those directions, elsewhere it keeps what it named before
HeldGreenAfter(rev, held, ints) ==
    [i \in IntersectionIds |->
        IF HoldingGreen(rev, ints[i]) # {} THEN HoldingGreen(rev, ints[i]) ELSE held[i]]

\* a faulty tick without the override guard; C20 has to tell it from
\* TickIntersection
TickIntersectionIgnoringOverride(rev, speed, int) ==
    AdvanceIntersection(rev, speed, int)

\* prev.map(intersection => ...) for one intersection
TickIntersection(rev, speed, int) ==
    IF int.emergencyOverride THEN int
    ELSE AdvanceIntersection(rev, speed, int)

SignalTick ==
    /\ ~isPaused
    /\ ~effectPending
    /\ SignalIntervalDue
    /\ timerCalls' = NextTimerCalls
    /\ intersections' = [i \in IntersectionIds |->
                            TickIntersection(revision, simulationSpeed, intersections[i])]
    /\ heldGreen' = HeldGreenAfter(revision, heldGreen, intersections')
    /\ UNCHANGED <<call, revision, isPaused, simulationSpeed, vehicles, emergencyActive,
                   communicationLinks, v2iMessages, statistics, effectPending>>

----------------------------------------------------------------------------
(* Route tables of addVehicle                                              *)

\* a straight route {start, end, direction, lane}; coordinates in pixels
Straight(sx, sy, ex, ey, d, l) ==
    [sx |-> Px(sx), sy |-> Px(sy), ex |-> Px(ex), ey |-> Px(ey),
     direction |-> d, lane |-> l]

\* const routes = [...] of revision D: six routes, no lanes (lane 1 stands
\* for the absent field)
OriginalRoutes ==
    << Straight(-50, 190, 950, 190, "EAST", 1),  Straight(950, 210, -50, 210, "WEST", 1),
       Straight(290, -50, 290, 750, "SOUTH", 1), Straight(310, 750, 310, -50, "NORTH", 1),
       Straight(590, -50, 590, 750, "SOUTH", 1), Straight(610, 750, 610, -50, "NORTH", 1) >>

\* const routes = [...]: sixteen straight routes, two lanes per direction
\* (revisions B and C share one table)
Routes(rev) ==
    IF rev = "D" THEN OriginalRoutes
    ELSE IF rev = "A"
    THEN << Straight(-50, 172, 950, 172, "EAST", 1),  Straight(-50, 164, 950, 164, "EAST", 2),
            Straight(950, 236, -50, 236, "WEST", 1),  Straight(950, 244, -50, 244, "WEST", 2),
            Straight(-50, 472, 950, 472, "EAST", 1),  Straight(-50, 464, 950, 464, "EAST", 2),
            Straight(950, 536, -50, 536, "WEST", 1),  Straight(950, 544, -50, 544, "WEST", 2),
            Straight(280, -50, 280, 750, "SOUTH", 1), Straight(272, -50, 272, 750, "SOUTH", 2),
            Straight(340, 750, 340, -50, "NORTH", 1), Straight(348, 750, 348, -50, "NORTH", 2),
            Straight(580, -50, 580, 750, "SOUTH", 1), Straight(572, -50, 572, 750, "SOUTH", 2),
            Straight(640, 750, 640, -50, "NORTH", 1), Straight(648, 750, 648, -50, "NORTH", 2) >>
    ELSE << Straight(-50, 252, 1550, 252, "EAST", 1),  Straight(-50, 244, 1550, 244, "EAST", 2),
            Straight(1550, 288, -50, 288, "WEST", 1),  Straight(1550, 296, -50, 296, "WEST", 2),
            Straight(-50, 652, 1550, 652, "EAST", 1),  Straight(-50, 644, 1550, 644, "EAST", 2),
            Straight(1550, 688, -50, 688, "WEST", 1),  Straight(1550, 696, -50, 696, "WEST", 2),
            Straight(452, -50, 452, 950, "SOUTH", 1),  Straight(444, -50, 444, 950, "SOUTH", 2),
            Straight(488, 950, 488, -50, "NORTH", 1),  Straight(496, 950, 496, -50, "NORTH", 2),
            Straight(952, -50, 952, 950, "SOUTH", 1),  Straight(944, -50, 944, 950, "SOUTH", 2),
            Straight(988, 950, 988, -50, "NORTH", 1),  Straight(996, 950, 996, -50, "NORTH", 2) >>

\* a turn route {start, waypoint, end, direction, turnAt, turnTo}
Turn(sx, sy, wx, wy, ex, ey, d, tx, ty, t) ==
    [sx |-> Px(sx), sy |-> Px(sy), wx |-> Px(wx), wy |-> Px(wy),
     ex |-> Px(ex), ey |-> Px(ey), direction |-> d,
     turnAtX |-> Px(tx), turnAtY |-> Px(ty), turnTo |-> t]

\* emergencyTurnRoutes[turnDirection]: NORTH, EAST, SOUTH, WEST approach
EmergencyTurnRoutes(rev, turnDirection) ==
    IF rev = "A"
    THEN IF turnDirection = "right"
         THEN << Turn(340, 750, 340, 210, 950, 172, "NORTH", 310, 210, "EAST"),
                 Turn(-50, 172, 310, 172, 280, 750, "EAST",  310, 210, "SOUTH"),
                 Turn(280, -50, 280, 210, -50, 236, "SOUTH", 310, 210, "WEST"),
                 Turn(950, 236, 310, 236, 340, -50, "WEST",  310, 210, "NORTH") >>
         ELSE << Turn(340, 750, 340, 210, -50, 236, "NORTH", 310, 210, "WEST"),
                 Turn(-50, 172, 310, 172, 340, -50, "EAST",  310, 210, "NORTH"),
                 Turn(280, -50, 280, 210, 950, 172, "SOUTH", 310, 210, "EAST"),
                 Turn(950, 236, 310, 236, 280, 750, "WEST",  310, 210, "SOUTH") >>
    ELSE IF turnDirection = "right"
         THEN << Turn(488, 950, 488, 290, 1550, 252, "NORTH", 490, 290, "EAST"),
                 Turn(-50, 252, 490, 252, 452, 950,  "EAST",  490, 290, "SOUTH"),
                 Turn(452, -50, 452, 290, -50, 288,  "SOUTH", 490, 290, "WEST"),
                 Turn(1550, 288, 490, 288, 488, -50, "WEST",  490, 290, "NORTH") >>
         ELSE << Turn(488, 950, 488, 290, -50, 288,  "NORTH", 490, 290, "WEST"),
                 Turn(-50, 252, 490, 252, 488, -50,  "EAST",  490, 290, "NORTH"),
                 Turn(452, -50, 452, 290, 1550, 252, "SOUTH", 490, 290, "EAST"),
                 Turn(1550, 288, 490, 288, 452, 950, "WEST",  490, 290, "SOUTH") >>

VehicleTypes == {"car", "bus", "truck", "emergency", "firetruck", "police"}

TurnIntents == {"null", "straight", "left", "right"}

\* type === 'emergency' || type === 'firetruck' || type === 'police'
IsEmergencyType(type) == type \in {"emergency", "firetruck", "police"}

\* const isEmergency = ... of each revision (D knows only 'emergency')
IsEmergency(rev, type) == IF rev = "D" THEN type = "emergency" ELSE IsEmergencyType(type)

\* isEmergency ? 4 : (type === 'bus' ? 1.5 : 2), times ten
SpeedOf(type) == IF IsEmergencyType(type) THEN 40 ELSE IF type = "bus" THEN 15 ELSE 20

\* is the intersection ahead of (x, y) in the direction of travel
IsInPath(rev, direction, x, y, id) ==
    \/ direction = "NORTH" /\ IntersectionY(rev, id) < y
    \/ direction = "SOUTH" /\ IntersectionY(rev, id) > y
    \/ direction = "EAST"  /\ IntersectionX(rev, id) > x
    \/ direction = "WEST"  /\ IntersectionX(rev, id) < x

\* findIntersectionsInPath(vehicle, maxDistance): ids ahead within maxDistance,
\* sorted by distance (stable sort: ties keep list order)
FindIntersectionsInPath(rev, direction, x, y, maxDistance) ==
    LET d2(i)  == DistSq(IntersectionX(rev, i), IntersectionY(rev, i), x, y)
        cand   == {i \in IntersectionIds :
                      d2(i) <= Sq(Px(maxDistance)) /\ IsInPath(rev, direction, x, y, i)}
        before(i) == {j \in cand : d2(j) < d2(i) \/ (d2(j) = d2(i) /\ j < i)}
    IN  [k \in 1 .. Cardinality(cand) |->
            CHOOSE i \in cand : Cardinality(before(i)) = k - 1]

\* a faulty planning that always takes the nearest intersection in path; C13
\* has to tell it from PlannedTurnIntersectionId
PlannedTurnIntersectionIdNearest(rev, isEmergency, turnDirection, direction, x, y) ==
    IF rev \in {"B", "C"} /\ isEmergency /\ turnDirection \notin {"null", "straight"}
    THEN LET inPath == FindIntersectionsInPath(rev, direction, x, y, 1000)
         IN  IF Len(inPath) >= 1 THEN inPath[1] ELSE 0
    ELSE 0

\* route planning at spawn (revisions B and C): the second intersection in path if
\* there are two, else the first, else null (0)
PlannedTurnIntersectionId(rev, isEmergency, turnDirection, direction, x, y) ==
    IF rev \in {"B", "C"} /\ isEmergency /\ turnDirection \notin {"null", "straight"}
    THEN LET inPath == FindIntersectionsInPath(rev, direction, x, y, 1000)
         IN  IF Len(inPath) >= 2 THEN inPath[2]
             ELSE IF Len(inPath) >= 1 THEN inPath[1] ELSE 0
    ELSE 0

\* createTurnPath(startPos, endPos, turnType) of revision C: a quadratic
\* bezier curve sampled at t = 0, 1/30, ..., 1 (31 points), the control
\* point 0.3 of the chord to its left or right; samples rounded to the grid
TurnPathSteps == 30

CreateTurnPath(sx, sy, ex, ey, turnType) ==
    LET dx == ex - sx
        dy == ey - sy
        cx == IF turnType = "left" THEN sx + dx \div 2 - (3 * dy) \div 10
                                   ELSE sx + dx \div 2 + (3 * dy) \div 10
        cy == IF turnType = "left" THEN sy + dy \div 2 + (3 * dx) \div 10
                                   ELSE sy + dy \div 2 - (3 * dx) \div 10
        B(p0, p1, p2, i) ==
            RoundDiv(Sq(TurnPathSteps - i) * p0 + 2 * (TurnPathSteps - i) * i * p1
                         + Sq(i) * p2,
                     Sq(TurnPathSteps))
    IN  [k \in 1 .. TurnPathSteps + 1 |->
            [x |-> B(sx, cx, ex, k - 1), y |-> B(sy, cy, ey, k - 1)]]

\* const newVehicle = {...} of revision D
OriginalVehicle(id, type, r) ==
    LET route == OriginalRoutes[r]
    IN  [ id          |-> id,
          type        |-> type,
          x           |-> route.sx,
          y           |-> route.sy,
          targetX     |-> route.ex,
          targetY     |-> route.ey,
          direction   |-> route.direction,
          speed       |-> IF type = "emergency" THEN 40 ELSE 20,
          stopped     |-> FALSE,
          status      |-> "moving",
          isEmergency |-> (type = "emergency") ]

\* what revision C adds to newVehicle: the bezier path of a turn and the
\* RoadGrid fields (currentRoadIndex from the spawn position)
RoadGridVehicle(base, tr, turning) ==
    LET vertical == base.direction \in {"NORTH", "SOUTH"}
    IN  [base EXCEPT !.path = IF turning
                               THEN << [x |-> tr.sx, y |-> tr.sy] >>
                                    \o CreateTurnPath(tr.wx, tr.wy, tr.ex, tr.ey,
                                                      base.turnDirection)
                               ELSE << >>]
        @@ [ startLaneX       |-> base.x,
             startLaneY       |-> base.y,
             currentRoadIndex |-> IF vertical
                                  THEN (IF base.x < Px(750) THEN 0 ELSE 1)
                                  ELSE (IF base.y < Px(500) THEN 0 ELSE 1),
             onVerticalRoad   |-> vertical ]

\* const newVehicle = {...} of revisions A and B, the base of revision C
RoutedVehicle(rev, id, type, turnDirection, r, t) ==
    LET isEmergency == IsEmergencyType(type)
        turning     == isEmergency /\ turnDirection \in {"left", "right"}
        tr          == EmergencyTurnRoutes(rev, turnDirection)[t]
        route       == Routes(rev)[r]
        sx          == IF turning THEN tr.sx ELSE route.sx
        sy          == IF turning THEN tr.sy ELSE route.sy
        dir         == IF turning THEN tr.direction ELSE route.direction
    IN  [ id            |-> id,
          type          |-> type,
          x             |-> sx,
          y             |-> sy,
          targetX       |-> IF turning THEN tr.wx ELSE route.ex,
          targetY       |-> IF turning THEN tr.wy ELSE route.ey,
          direction     |-> dir,
          speed         |-> SpeedOf(type),
          stopped       |-> FALSE,
          status        |-> "moving",
          isEmergency   |-> isEmergency,
          turnDirection |-> turnDirection,
          turnTo        |-> IF turning THEN tr.turnTo ELSE "undefined",
          path          |-> IF turning
                            THEN << [x |-> tr.sx, y |-> tr.sy], [x |-> tr.wx, y |-> tr.wy],
                                    [x |-> tr.ex, y |-> tr.ey] >>
                            ELSE << >>,
          pathIndex     |-> IF turning THEN 1 ELSE 0,
          lane          |-> IF turning THEN 1 ELSE route.lane,
          plannedTurnIntersectionId |->
              PlannedTurnIntersectionId(rev, isEmergency, turnDirection, dir, sx, sy) ]

\* const newVehicle = {...}; r and t are the two Math.random() route draws
NewVehicle(rev, id, type, turnDirection, r, t) ==
    CASE rev = "D" -> OriginalVehicle(id, type, r)
      [] rev = "C" ->
           RoadGridVehicle(RoutedVehicle(rev, id, type, turnDirection, r, t),
                           EmergencyTurnRoutes(rev, turnDirection)[t],
                           IsEmergencyType(type) /\ turnDirection \in {"left", "right"})
      [] OTHER -> RoutedVehicle(rev, id, type, turnDirection, r, t)

\* a faulty addVehicle that counts every spawn as an emergency event; C36 has
\* to tell it from AddVehicle
AddVehicleCountingEvery(type, turnDirection, r, t) ==
    /\ ~effectPending
    /\ vehicles' = Append(vehicles,
                          NewVehicle(revision, statistics.totalVehicles + 1,
                                     type, turnDirection, r, t))
    /\ statistics' = [statistics EXCEPT
                         !.totalVehicles = @ + 1,
                         !.emergencyEvents = @ + 1]
    /\ emergencyActive' = (IsEmergency(revision, type) \/ emergencyActive)
    /\ effectPending' = TRUE
    /\ UNCHANGED <<call, heldGreen, timerCalls, revision, isPaused, simulationSpeed, intersections,
                   communicationLinks, v2iMessages>>

\* addVehicle(type, turnDirection)
AddVehicle(type, turnDirection, r, t) ==
    /\ ~effectPending
    /\ vehicles' = Append(vehicles,
                          NewVehicle(revision, statistics.totalVehicles + 1,
                                     type, turnDirection, r, t))
    /\ statistics' = [statistics EXCEPT
                         !.totalVehicles = @ + 1,
                         !.emergencyEvents = IF IsEmergency(revision, type)
                                             THEN @ + 1 ELSE @]
    /\ emergencyActive' = (IsEmergency(revision, type) \/ emergencyActive)
    /\ effectPending' = TRUE
    /\ UNCHANGED <<call, heldGreen, timerCalls, revision, isPaused, simulationSpeed, intersections,
                   communicationLinks, v2iMessages>>

\* removeVehicle(id)
RemoveVehicle(id) ==
    /\ ~effectPending
    /\ vehicles' = SelectSeq(vehicles, LAMBDA v : v.id # id)
    /\ effectPending' = TRUE
    /\ UNCHANGED <<call, heldGreen, timerCalls, revision, isPaused, simulationSpeed, intersections, emergencyActive,
                   communicationLinks, v2iMessages, statistics>>

\* setIsPaused(next)
SetIsPaused(next) ==
    /\ ~effectPending
    /\ isPaused' = next
    /\ UNCHANGED <<call, heldGreen, timerCalls, revision, simulationSpeed, vehicles, intersections, emergencyActive,
                   communicationLinks, v2iMessages, statistics, effectPending>>

\* setSimulationSpeed(parseFloat(e.target.value))
SetSimulationSpeed(next) ==
    /\ ~effectPending
    /\ next \in AllowedSpeeds
    /\ simulationSpeed' = next
    /\ UNCHANGED <<call, heldGreen, timerCalls, revision, isPaused, vehicles, intersections, emergencyActive,
                   communicationLinks, v2iMessages, statistics, effectPending>>

----------------------------------------------------------------------------
(* Emergency priority effect: useEffect(..., [vehicles])                   *)

EmergencyVehicles(vs) == SelectSeq(vs, LAMBDA v : v.isEmergency)

\* which signal an emergency vehicle is granted at intersection id
TargetDirection(rev, ev, id, d2) ==
    IF rev = "A"
    THEN IF /\ ev.turnDirection \notin {"null", "straight"}
            /\ Closer(d2, TURN_DIRECTION_SWITCH_DISTANCE)
            /\ ev.turnTo # "undefined"
         THEN Lower(ev.turnTo)
         ELSE Lower(ev.direction)
    ELSE LET action == IF ev.plannedTurnIntersectionId = id /\ ev.turnDirection # "straight"
                       THEN ev.turnDirection ELSE "straight"
         IN  CASE action = "left" ->
                    (CASE ev.direction = "NORTH" -> "west" [] ev.direction = "SOUTH" -> "east"
                       [] ev.direction = "EAST" -> "north" [] ev.direction = "WEST" -> "south")
               [] action = "right" ->
                    (CASE ev.direction = "NORTH" -> "east" [] ev.direction = "SOUTH" -> "west"
                       [] ev.direction = "EAST" -> "south" [] ev.direction = "WEST" -> "north")
               [] OTHER -> Lower(ev.direction)

\* emergencyTurnDirection recorded with the override
OverrideTurnDirection(rev, ev, id) ==
    IF rev = "A"
    THEN (IF ev.turnDirection = "null" THEN "straight" ELSE ev.turnDirection)
    ELSE (IF ev.plannedTurnIntersectionId = id /\ ev.turnDirection # "straight"
          THEN ev.turnDirection ELSE "straight")

\* a faulty override that leaves the opposite direction GREEN as well (paired
\* phases); C1 has to tell it from OverrideSignals
OverrideSignalsPaired(rev, targetDirection) ==
    LET opposite == CASE targetDirection = "north" -> "south"
                      [] targetDirection = "south" -> "north"
                      [] targetDirection = "east"  -> "west"
                      [] targetDirection = "west"  -> "east"
    IN  [d \in DirKeys |->
            IF d \in {targetDirection, opposite}
            THEN [phase |-> "GREEN", timer |-> TimingGreen(rev)]
            ELSE [phase |-> "RED", timer |-> 0]]

\* a faulty override that turns the target direction GREEN and leaves the
\* other three on YELLOW; C21 has to tell it from OverrideSignals
OverrideSignalsAmber(rev, targetDirection) ==
    [d \in DirKeys |->
        IF d = targetDirection
        THEN [phase |-> "GREEN", timer |-> TimingGreen(rev)]
        ELSE [phase |-> "YELLOW", timer |-> TimingYellow(rev)]]

\* newSignals: only the target direction GREEN, every other direction RED
OverrideSignals(rev, targetDirection) ==
    [d \in DirKeys |->
        IF d = targetDirection
        THEN [phase |-> "GREEN", timer |-> TimingGreen(rev)]
        ELSE [phase |-> "RED", timer |-> 0]]

\* a faulty window that opens only inside PREEMPTION_MIN_DISTANCE; C2 has to
\* tell it from InPreemptionWindow
InPreemptionWindowInside(rev, ev, id) ==
    LET d2 == DistSq(ev.x, ev.y, IntersectionX(rev, id), IntersectionY(rev, id))
    IN  /\ rev \in {"B", "C"} => IsInPath(rev, ev.direction, ev.x, ev.y, id)
        /\ Closer(d2, PREEMPTION_MIN_DISTANCE)

\* the detection window of one vehicle at one intersection
InPreemptionWindow(rev, ev, id) ==
    LET d2 == DistSq(ev.x, ev.y, IntersectionX(rev, id), IntersectionY(rev, id))
    IN  /\ rev \in {"B", "C"} => IsInPath(rev, ev.direction, ev.x, ev.y, id)
        /\ Closer(d2, DETECTION_DISTANCE)
        /\ Farther(d2, PREEMPTION_MIN_DISTANCE)

\* a faulty override that turns the approach axis GREEN and leaves the
\* crossing axis GREEN as well; C15 has to tell it from TwoPhaseOverrideSignals
TwoPhaseOverrideSignalsAllGreen(approachDirection) ==
    [d \in DirKeys |-> "GREEN"]

\* the override of revision C: the axis of the approach direction GREEN
TwoPhaseOverrideSignals(approachDirection) ==
    TwoPhaseSignals(IF approachDirection \in {"NORTH", "SOUTH"}
                    THEN "north-south" ELSE "east-west")

\* the override distance of revision D (a literal in its effect)
ORIGINAL_OVERRIDE_DISTANCE == 150

\* the forEach body of revision D: inside 150 px the override is set and the
\* phase forced to the axis of travel, beyond 200 px the override is dropped
PreemptOriginal(st, ev, d2) ==
    IF Closer(d2, ORIGINAL_OVERRIDE_DISTANCE)
    THEN [st EXCEPT !.int.emergencyOverride = TRUE,
                    !.int.phase = IF ev.direction \in {"EAST", "WEST"}
                                  THEN "EW_GREEN" ELSE "NS_GREEN"]
    ELSE IF Farther(d2, EMERGENCY_CLEAR_DISTANCE)
    THEN [st EXCEPT !.int.emergencyOverride = FALSE]
    ELSE st

\* a faulty forEach body in which the first emergency vehicle inside the window
\* keeps its grant against later ones; C31 has to tell it from PreemptOne
PreemptOneFirstWins(rev, id, st, ev) ==
    LET d2 == DistSq(ev.x, ev.y, IntersectionX(rev, id), IntersectionY(rev, id))
    IN  IF rev = "D" THEN PreemptOriginal(st, ev, d2)
        ELSE IF InPreemptionWindow(rev, ev, id) /\ st.has THEN st
        ELSE IF InPreemptionWindow(rev, ev, id)
        THEN [ int |-> [st.int EXCEPT
                           !.emergencyOverride = TRUE,
                           !.signals =
                               IF rev = "C"
                               THEN TwoPhaseOverrideSignals(ev.direction)
                               ELSE OverrideSignals(rev, TargetDirection(rev, ev, id, d2)),
                           !.emergencyTurnDirection =
                               IF rev = "C" THEN ev.turnDirection
                               ELSE OverrideTurnDirection(rev, ev, id)],
               has |-> TRUE ]
        ELSE IF Farther(d2, EMERGENCY_CLEAR_DISTANCE) /\ ~st.has
        THEN [ int |-> [st.int EXCEPT !.emergencyOverride = FALSE,
                                      !.emergencyTurnDirection = "null"],
               has |-> st.has ]
        ELSE st

\* body of emergencyVehicles.forEach(ev => ...) for one intersection;
\* st carries updatedIntersection and hasEmergencyOverride
PreemptOne(rev, id, st, ev) ==
    LET d2 == DistSq(ev.x, ev.y, IntersectionX(rev, id), IntersectionY(rev, id))
    IN  IF rev = "D" THEN PreemptOriginal(st, ev, d2)
        ELSE IF InPreemptionWindow(rev, ev, id)
        THEN [ int |-> [st.int EXCEPT
                           !.emergencyOverride = TRUE,
                           !.signals =
                               IF rev = "C"
                               THEN TwoPhaseOverrideSignals(ev.direction)
                               ELSE OverrideSignals(rev, TargetDirection(rev, ev, id, d2)),
                           !.emergencyTurnDirection =
                               IF rev = "C" THEN ev.turnDirection
                               ELSE OverrideTurnDirection(rev, ev, id)],
               has |-> TRUE ]
        ELSE IF Farther(d2, EMERGENCY_CLEAR_DISTANCE) /\ ~st.has
        THEN [ int |-> [st.int EXCEPT !.emergencyOverride = FALSE,
                                      !.emergencyTurnDirection = "null"],
               has |-> st.has ]
        ELSE st

RECURSIVE PreemptAll(_, _, _, _)
PreemptAll(rev, id, st, evs) ==
    IF evs = << >> THEN st
    ELSE PreemptAll(rev, id, PreemptOne(rev, id, st, Head(evs)), Tail(evs))

\* a faulty reset that lowers emergencyOverride and leaves
\* emergencyTurnDirection as it is; C37 has to tell it from PreemptIntersection
PreemptIntersectionKeepingTurn(rev, id, int, vs) ==
    IF EmergencyVehicles(vs) = << >>
    THEN [int EXCEPT !.emergencyOverride = FALSE]
    ELSE PreemptAll(rev, id, [int |-> int, has |-> FALSE], EmergencyVehicles(vs)).int

\* a faulty effect without the reset taken when the list holds no emergency
\* vehicle; C3 has to tell it from PreemptIntersection
PreemptIntersectionNoReset(rev, id, int, vs) ==
    PreemptAll(rev, id, [int |-> int, has |-> FALSE], EmergencyVehicles(vs)).int

\* the whole effect applied to one intersection
PreemptIntersection(rev, id, int, vs) ==
    IF EmergencyVehicles(vs) = << >>
    THEN IF rev = "D" THEN [int EXCEPT !.emergencyOverride = FALSE]
         ELSE [int EXCEPT !.emergencyOverride = FALSE, !.emergencyTurnDirection = "null"]
    ELSE PreemptAll(rev, id, [int |-> int, has |-> FALSE], EmergencyVehicles(vs)).int

\* a faulty effect that never lowers the flag; C14 has to tell it from
\* EmergencyActiveAfter
EmergencyActiveLatched(active, vs) == active

\* if (emergencyVehicles.length === 0) { setEmergencyActive(false); ... }
EmergencyActiveAfter(active, vs) ==
    IF EmergencyVehicles(vs) = << >> THEN FALSE ELSE active

EmergencyPriorityEffect ==
    /\ effectPending
    /\ effectPending' = FALSE
    /\ emergencyActive' = EmergencyActiveAfter(emergencyActive, vehicles)
    /\ intersections' = [i \in IntersectionIds |->
                            PreemptIntersection(revision, i, intersections[i], vehicles)]
    /\ heldGreen' = HeldGreenAfter(revision, heldGreen, intersections')
    /\ UNCHANGED <<call, timerCalls, revision, isPaused, simulationSpeed, vehicles,
                   communicationLinks, v2iMessages, statistics>>

----------------------------------------------------------------------------
(* Vehicle kinematics: the 50 ms interval                                  *)

IX(rev, id) == IntersectionX(rev, id)

IY(rev, id) == IntersectionY(rev, id)

\* isInIntersection(vehicle, intersection)
IsInIntersection(rev, v, id) ==
    /\ Abs(v.x - IX(rev, id)) < Px(INTERSECTION_SIZE) \div 2
    /\ Abs(v.y - IY(rev, id)) < Px(INTERSECTION_SIZE) \div 2

\* vehiclesInIntersections.has(vehicle.id)
InSomeIntersection(rev, v) == \E id \in IntersectionIds : IsInIntersection(rev, v, id)

\* `other` lies ahead of v along v.direction within the lane tolerance
AheadInLane(v, other) ==
    \/ v.direction = "EAST"  /\ other.x > v.x /\ Abs(other.y - v.y) < Px(LANE_TOLERANCE)
    \/ v.direction = "WEST"  /\ other.x < v.x /\ Abs(other.y - v.y) < Px(LANE_TOLERANCE)
    \/ v.direction = "SOUTH" /\ other.y > v.y /\ Abs(other.x - v.x) < Px(LANE_TOLERANCE)
    \/ v.direction = "NORTH" /\ other.y < v.y /\ Abs(other.x - v.x) < Px(LANE_TOLERANCE)

\* congestion handling: ev has a non-emergency vehicle ahead within 200 px
IsBlocked(prev, ev) ==
    \E k \in 1 .. Len(prev) :
        /\ prev[k].id # ev.id
        /\ ~prev[k].isEmergency
        /\ AheadInLane(ev, prev[k])
        /\ DistSq(prev[k].x, prev[k].y, ev.x, ev.y) < Sq(Px(200))

\* queueClearanceNeeded.get(id): index in prev of the last emergency vehicle
\* that set the entry of intersection id, 0 when the map has no entry
QueueClearanceNeeded(rev, prev, id) ==
    LET setters == {k \in 1 .. Len(prev) :
                      /\ prev[k].isEmergency
                      /\ IsBlocked(prev, prev[k])
                      /\ IsInPath(rev, prev[k].direction, prev[k].x, prev[k].y, id)
                      /\ DistSq(prev[k].x, prev[k].y, IX(rev, id), IY(rev, id)) < Sq(Px(300))}
    IN  IF setters = {} THEN 0 ELSE CHOOSE k \in setters : \A j \in setters : j <= k

\* allowedToMoveForEmergency
AllowedToMoveForEmergency(rev, prev, v) ==
    \E id \in IntersectionIds :
        LET k == QueueClearanceNeeded(rev, prev, id)
        IN  /\ k # 0
            /\ LET ev == prev[k]
                   distToInt   == DistSq(v.x, v.y, IX(rev, id), IY(rev, id))
                   distEvToInt == DistSq(ev.x, ev.y, IX(rev, id), IY(rev, id))
                   inSameLane  ==
                       /\ v.direction = ev.direction
                       /\ IF v.direction \in {"EAST", "WEST"}
                          THEN Abs(v.y - ev.y) < Px(LANE_TOLERANCE)
                          ELSE Abs(v.x - ev.x) < Px(LANE_TOLERANCE)
               IN  inSameLane /\ distToInt < distEvToInt /\ distToInt < Sq(Px(200))

\* collision detection: index in prev of vehicleAhead, 0 when there is none
\* (the nearest vehicle ahead in the same direction; the first one on ties)
VehicleAhead(prev, v) ==
    LET ahead == {k \in 1 .. Len(prev) :
                    /\ prev[k].id # v.id
                    /\ AheadInLane(v, prev[k])
                    /\ prev[k].direction = v.direction}
        d2(k) == DistSq(prev[k].x, prev[k].y, v.x, v.y)
    IN  IF v.isEmergency \/ ahead = {} THEN 0
        ELSE CHOOSE k \in ahead :
                 \A j \in ahead : d2(k) < d2(j) \/ (d2(k) = d2(j) /\ k <= j)

\* emergencyApproaching
EmergencyApproaching(rev, prev) ==
    \E k \in 1 .. Len(prev) :
        /\ prev[k].isEmergency
        /\ \E id \in IntersectionIds :
              Closer(DistSq(prev[k].x, prev[k].y, IX(rev, id), IY(rev, id)),
                     DETECTION_DISTANCE)

\* the normal signal check: RED or YELLOW stops in the four-phase revisions,
\* RED in revision C
SignalSaysStop(rev, int, v) ==
    IF rev = "C" THEN int.signals[Lower(v.direction)] = "RED"
    ELSE int.signals[Lower(v.direction)].phase \in {"RED", "YELLOW"}

\* a faulty signal check without the exemption of emergency vehicles; C8 has to
\* tell it from StopAt
StopAtRegardless(rev, prev, ints, v, id, allowed, d2) ==
    IF allowed THEN FALSE
    ELSE IF EmergencyApproaching(rev, prev) /\ InSomeIntersection(rev, v) THEN FALSE
    ELSE IF /\ EmergencyApproaching(rev, prev)
            /\ ~InSomeIntersection(rev, v)
            /\ Farther(d2, EMERGENCY_STOP_THRESHOLD)
         THEN TRUE
    ELSE SignalSaysStop(rev, ints[id], v)

\* the assignment to shouldStop made for one intersection within checkDistance
StopAt(rev, prev, ints, v, id, allowed, d2) ==
    IF v.isEmergency THEN FALSE
    ELSE IF allowed THEN FALSE
    ELSE IF EmergencyApproaching(rev, prev) /\ InSomeIntersection(rev, v) THEN FALSE
    ELSE IF /\ EmergencyApproaching(rev, prev)
            /\ ~InSomeIntersection(rev, v)
            /\ Farther(d2, EMERGENCY_STOP_THRESHOLD)
         THEN TRUE
    ELSE SignalSaysStop(rev, ints[id], v)

\* shouldStop after intersections.forEach: the last intersection in range decides
RECURSIVE ShouldStopFrom(_, _, _, _, _, _, _)
ShouldStopFrom(rev, prev, ints, v, allowed, id, acc) ==
    IF id > 4 THEN acc
    ELSE LET d2 == DistSq(v.x, v.y, IX(rev, id), IY(rev, id))
         IN  ShouldStopFrom(rev, prev, ints, v, allowed, id + 1,
                 IF Closer(d2, INTERSECTION_CHECK_DISTANCE)
                 THEN StopAt(rev, prev, ints, v, id, allowed, d2)
                 ELSE acc)

ShouldStop(rev, prev, ints, v, allowed) ==
    ShouldStopFrom(rev, prev, ints, v, allowed, 1, FALSE)

\* x + Math.cos(Math.atan2(dy, dx)) * step, y + Math.sin(...) * step.
\* Exact along an axis; on a diagonal the result is rounded to the grid.
MoveToward(v, step) ==
    LET dx == v.targetX - v.x
        dy == v.targetY - v.y
    IN  IF dy = 0 THEN [x |-> v.x + (IF dx > 0 THEN step ELSE 0 - step), y |-> v.y]
        ELSE IF dx = 0 THEN [x |-> v.x, y |-> v.y + (IF dy > 0 THEN step ELSE 0 - step)]
        ELSE LET dist == ISqrt(Sq(dx) + Sq(dy))
             IN  [x |-> v.x + RoundDiv(step * dx, dist),
                  y |-> v.y + RoundDiv(step * dy, dist)]

\* currentIntersectionId of the turn check (revision B): the last intersection
\* whose boundary contains the vehicle, 0 for null
CurrentIntersectionId(rev, v) ==
    LET inside == {id \in IntersectionIds : IsInIntersection(rev, v, id)}
    IN  IF inside = {} THEN 0 ELSE CHOOSE id \in inside : \A j \in inside : j <= id

\* newDirection at a waypoint transition
NewDirection(rev, v) ==
    IF v.turnTo # "undefined" /\ v.pathIndex = 1
    THEN IF rev = "A" THEN v.turnTo
         ELSE IF CurrentIntersectionId(rev, v) = v.plannedTurnIntersectionId
              THEN v.turnTo ELSE v.direction
    ELSE v.direction

TurningStatus(v) == IF v.turnDirection = "left" THEN "turning left"
                    ELSE IF v.turnDirection = "right" THEN "turning right"
                    ELSE "turning straight"

\* calculateLanePosition(vehicle) of revision C applied to the new position
\* p: a vehicle without a path is put on the RoadGrid lane of its
\* currentRoadIndex, lane and direction; the other revisions keep p
LockToLane(rev, v, p) ==
    IF rev = "C" /\ (v.path = << >> \/ v.pathIndex >= Len(v.path))
    THEN IF v.direction \in {"NORTH", "SOUTH"}
         THEN [x |-> GetVerticalRoadLaneX(v.currentRoadIndex, v.lane, v.direction),
               y |-> p.y]
         ELSE [x |-> p.x,
               y |-> GetHorizontalRoadLaneY(v.currentRoadIndex, v.lane, v.direction)]
    ELSE p

\* revision C, at a waypoint: the last intersection within 150 px, 0 for null
NEAR_INTERSECTION_DISTANCE == 150

NearIntersectionId(rev, v) ==
    LET near == {id \in IntersectionIds :
                     Closer(DistSq(v.x, v.y, IX(rev, id), IY(rev, id)),
                            NEAR_INTERSECTION_DISTANCE)}
    IN  IF near = {} THEN 0 ELSE CHOOSE id \in near : \A j \in near : j <= id

EXIT_NORTH == -100
EXIT_SOUTH == 1000
EXIT_EAST == 1600
EXIT_WEST == -100

\* revision C, a waypoint that is not the last one: the direction changes on
\* the step to the last waypoint, at the planned intersection only
NextWaypointRoadGrid(rev, v) ==
    LET next         == v.path[v.pathIndex + 2]
        isLast       == v.pathIndex + 1 = Len(v.path) - 1
        newDirection == IF /\ v.turnTo # "undefined"
                           /\ isLast
                           /\ NearIntersectionId(rev, v) = v.plannedTurnIntersectionId
                        THEN v.turnTo ELSE v.direction
    IN  [v EXCEPT !.targetX = next.x, !.targetY = next.y,
                  !.direction = newDirection,
                  !.pathIndex = v.pathIndex + 1,
                  !.startLaneX = IF newDirection \in {"NORTH", "SOUTH"}
                                 THEN next.x ELSE v.startLaneX,
                  !.startLaneY = IF newDirection \in {"EAST", "WEST"}
                                 THEN next.y ELSE v.startLaneY,
                  !.status = IF v.turnDirection # "null"
                             THEN TurningStatus(v) ELSE "moving"]

\* revision C, the final waypoint: the vehicle is put on the lane of the road
\* it turned into and sent to the exit coordinate of its direction
FinalWaypointRoadGrid(rev, v) ==
    LET passed       == NearIntersectionId(rev, v)
        newRoadIndex == FindRoadIndexAfterTurn(IF passed = 0 THEN 1 ELSE passed,
                                               v.direction)
        vertical     == v.direction \in {"NORTH", "SOUTH"}
        correctedX   == IF vertical
                        THEN GetVerticalRoadLaneX(newRoadIndex, v.lane, v.direction)
                        ELSE v.x
        correctedY   == IF vertical THEN v.y
                        ELSE GetHorizontalRoadLaneY(newRoadIndex, v.lane, v.direction)
    IN  [v EXCEPT !.x = correctedX, !.y = correctedY,
                  !.path = << >>, !.pathIndex = 0,
                  !.targetX = CASE v.direction = "EAST" -> Px(EXIT_EAST)
                                [] v.direction = "WEST" -> Px(EXIT_WEST)
                                [] OTHER -> correctedX,
                  !.targetY = CASE v.direction = "NORTH" -> Px(EXIT_NORTH)
                                [] v.direction = "SOUTH" -> Px(EXIT_SOUTH)
                                [] OTHER -> correctedY,
                  !.currentRoadIndex = newRoadIndex,
                  !.onVerticalRoad = vertical,
                  !.startLaneX = IF vertical THEN correctedX ELSE v.startLaneX,
                  !.startLaneY = IF vertical THEN v.startLaneY ELSE correctedY,
                  !.status = "moving"]

\* checkDistance of revision D
ORIGINAL_CHECK_DISTANCE == 40

\* revision D, shouldStop after intersections.forEach: the last intersection
\* within checkDistance decides; yellow of the crossing axis stops as well
RECURSIVE ShouldStopOriginalFrom(_, _, _, _)
ShouldStopOriginalFrom(ints, v, id, acc) ==
    IF id > 4 THEN acc
    ELSE ShouldStopOriginalFrom(ints, v, id + 1,
             IF Closer(DistSq(v.x, v.y, IX("D", id), IY("D", id)),
                       ORIGINAL_CHECK_DISTANCE)
             THEN IF v.isEmergency THEN FALSE
                  ELSE IF v.direction \in {"EAST", "WEST"}
                       THEN ints[id].phase \in {"NS_GREEN", "NS_YELLOW"}
                       ELSE ints[id].phase \in {"EW_GREEN", "EW_YELLOW"}
             ELSE acc)

\* revision D, the body of prev.map(vehicle => ...)
UpdateVehicleOriginal(speed, ints, v) ==
    IF Closer(Sq(v.targetX - v.x) + Sq(v.targetY - v.y), DESTINATION_REACH_DISTANCE)
    THEN << >>
    ELSE IF ShouldStopOriginalFrom(ints, v, 1, FALSE)
    THEN << [v EXCEPT !.stopped = TRUE, !.status = "stopped"] >>
    ELSE LET p == MoveToward(v, v.speed * speed)
         IN  << [v EXCEPT !.x = p.x, !.y = p.y, !.stopped = FALSE,
                          !.status = "moving"] >>

\* the body of prev.map(vehicle => ...) of revisions A, B and C
UpdateVehicleWithQueue(rev, speed, prev, ints, v) ==
    LET dx       == v.targetX - v.x
        dy       == v.targetY - v.y
        distance == Sq(dx) + Sq(dy)
        allowed  == AllowedToMoveForEmergency(rev, prev, v)
        k        == VehicleAhead(prev, v)
        following == /\ ~v.isEmergency
                     /\ k # 0
                     /\ Closer(DistSq(prev[k].x, prev[k].y, v.x, v.y), SAFE_DISTANCE)
                     /\ ~allowed
    IN  IF Closer(distance, DESTINATION_REACH_DISTANCE) THEN << >>
        ELSE IF following
        THEN IF prev[k].stopped
             THEN << [v EXCEPT !.stopped = TRUE, !.status = "stopped (queue)"] >>
             ELSE LET p == LockToLane(rev, v,
                                      MoveToward(v, (prev[k].speed * speed * 4) \div 5))
                  IN  << [v EXCEPT !.x = p.x, !.y = p.y, !.stopped = FALSE,
                                   !.status = "following"] >>
        ELSE IF ShouldStop(rev, prev, ints, v, allowed) /\ ~allowed
        THEN << [v EXCEPT !.stopped = TRUE, !.status = "stopped"] >>
        ELSE IF /\ v.path # << >>
                /\ v.pathIndex < Len(v.path)
                /\ Closer(distance, WAYPOINT_REACH_DISTANCE)
        THEN \* path[] is 0-based in the source: pathIndex + 1 < path.length
             IF rev = "C"
             THEN IF v.pathIndex + 1 < Len(v.path)
                  THEN << NextWaypointRoadGrid(rev, v) >>
                  ELSE << FinalWaypointRoadGrid(rev, v) >>
             ELSE IF v.pathIndex + 1 < Len(v.path)
             THEN << [v EXCEPT !.targetX = v.path[v.pathIndex + 2].x,
                               !.targetY = v.path[v.pathIndex + 2].y,
                               !.direction = NewDirection(rev, v),
                               !.pathIndex = v.pathIndex + 1,
                               !.status = IF v.turnDirection # "null"
                                          THEN TurningStatus(v) ELSE "moving"] >>
             ELSE << >>
        ELSE LET p == LockToLane(rev, v, MoveToward(v, v.speed * speed))
             IN  << [v EXCEPT !.x = p.x, !.y = p.y, !.stopped = FALSE,
                              !.status = IF v.turnDirection # "null" /\ v.pathIndex = 1
                                         THEN TurningStatus(v) ELSE "moving"] >>

\* the body of prev.map(vehicle => ...): << >> for null, else <<next vehicle>>
UpdateVehicle(rev, speed, prev, ints, v) ==
    IF rev = "D" THEN UpdateVehicleOriginal(speed, ints, v)
    ELSE UpdateVehicleWithQueue(rev, speed, prev, ints, v)

RECURSIVE MapVehicles(_, _, _, _, _)
MapVehicles(rev, speed, prev, ints, k) ==
    IF k > Len(prev) THEN << >>
    ELSE UpdateVehicle(rev, speed, prev, ints, prev[k])
             \o MapVehicles(rev, speed, prev, ints, k + 1)

\* a faulty kinematics pass that does not wait for the emergency priority
\* effect of the previous change of the vehicle list; C30 has to tell it from
\* VehicleTick
VehicleTickBeforeEffect ==
    /\ ~isPaused
    /\ VehicleIntervalDue
    /\ timerCalls' = NextTimerCalls
    /\ vehicles' = MapVehicles(revision, simulationSpeed, vehicles, intersections, 1)
    /\ effectPending' = TRUE
    /\ UNCHANGED <<call, heldGreen, revision, isPaused, simulationSpeed, intersections, emergencyActive,
                   communicationLinks, v2iMessages, statistics>>

\* setVehicles(prev => prev.map(...).filter(v => v !== null))
VehicleTick ==
    /\ ~isPaused
    /\ ~effectPending
    /\ VehicleIntervalDue
    /\ timerCalls' = NextTimerCalls
    /\ vehicles' = MapVehicles(revision, simulationSpeed, vehicles, intersections, 1)
    /\ effectPending' = TRUE
    /\ UNCHANGED <<call, heldGreen, revision, isPaused, simulationSpeed, intersections, emergencyActive,
                   communicationLinks, v2iMessages, statistics>>

----------------------------------------------------------------------------
(* Communication simulator: the 200 ms and 500 ms intervals                *)

V2I_COMMUNICATION_MAX_DISTANCE == 300
V2I_COMMUNICATION_MIN_DISTANCE == 10
V2I_REGULAR_COMMUNICATION_DISTANCE == 80
V2V_RANGE == 100

\* intersections an emergency vehicle addresses in one broadcast:
\* A: every intersection ahead within 300 px, in list order;
\* B: only the nearest one in path, if within (10, 300] px
BroadcastTargets(rev, ev) ==
    IF rev = "A"
    THEN SelectSeq(<<1, 2, 3, 4>>,
             LAMBDA id : /\ DistSq(ev.x, ev.y, IX(rev, id), IY(rev, id))
                              <= Sq(Px(V2I_COMMUNICATION_MAX_DISTANCE))
                         /\ IsInPath(rev, ev.direction, ev.x, ev.y, id))
    ELSE LET inPath == FindIntersectionsInPath(rev, ev.direction, ev.x, ev.y, 500)
         IN  IF inPath = << >> THEN << >>
             ELSE LET d2 == DistSq(ev.x, ev.y, IX(rev, inPath[1]), IY(rev, inPath[1]))
                  IN  IF /\ d2 <= Sq(Px(V2I_COMMUNICATION_MAX_DISTANCE))
                         /\ Farther(d2, V2I_COMMUNICATION_MIN_DISTANCE)
                      THEN << inPath[1] >> ELSE << >>

\* const v2iMessage = {...}
V2IMessage(rev, ev) ==
    LET targets == BroadcastTargets(rev, ev)
        intent  == IF ev.turnDirection = "null" THEN "straight" ELSE ev.turnDirection
    IN  [ vehicleId     |-> ev.id,
          vehicleType   |-> ev.type,
          x             |-> ev.x,
          y             |-> ev.y,
          direction     |-> ev.direction,
          turnIntention |-> intent,
          actionAtThisIntersection |->
              IF rev = "B" /\ targets # << >> /\ ev.plannedTurnIntersectionId = targets[1]
              THEN intent ELSE "straight",
          targets       |-> targets ]

RECURSIVE BroadcastMessages(_, _)
BroadcastMessages(rev, evs) ==
    IF evs = << >> THEN << >>
    ELSE (IF BroadcastTargets(rev, Head(evs)) = << >> THEN << >>
          ELSE << V2IMessage(rev, Head(evs)) >>)
         \o BroadcastMessages(rev, Tail(evs))

\* a faulty broadcast whose receiver acts on the message (sets the override of
\* every addressed intersection); C10 has to tell it from V2IBroadcast
V2IBroadcastActing ==
    /\ ~isPaused
    /\ ~effectPending
    /\ LET messages == BroadcastMessages(revision, EmergencyVehicles(vehicles))
           addressed == {id \in IntersectionIds :
                           \E m \in 1 .. Len(messages), t \in 1 .. 4 :
                               t <= Len(messages[m].targets) /\ messages[m].targets[t] = id}
       IN  /\ v2iMessages' = messages
           /\ statistics' = [statistics EXCEPT !.v2iBroadcasts = @ + Len(messages)]
           /\ intersections' = [id \in IntersectionIds |->
                                   IF id \in addressed
                                   THEN [intersections[id] EXCEPT !.emergencyOverride = TRUE]
                                   ELSE intersections[id]]
    /\ UNCHANGED <<call, heldGreen, timerCalls, revision, isPaused, simulationSpeed, vehicles,
                   emergencyActive, communicationLinks, effectPending>>

\* the V2I broadcast interval; receiveV2IMessage only logs
V2IBroadcast ==
    /\ ~isPaused
    /\ ~effectPending
    /\ LET messages == BroadcastMessages(revision, EmergencyVehicles(vehicles))
       IN  /\ v2iMessages' = messages
           /\ statistics' = [statistics EXCEPT !.v2iBroadcasts = @ + Len(messages)]
    /\ UNCHANGED <<call, heldGreen, timerCalls, revision, isPaused, simulationSpeed, vehicles, intersections,
                   emergencyActive, communicationLinks, effectPending>>

Link(type, fx, fy, tx, ty) ==
    [type |-> type, fromX |-> fx, fromY |-> fy, toX |-> tx, toY |-> ty]

\* V2V links of vehicle i with every later vehicle within 100 px
RECURSIVE V2VLinks(_, _, _)
V2VLinks(vs, i, j) ==
    IF j > Len(vs) THEN << >>
    ELSE (IF Closer(DistSq(vs[i].x, vs[i].y, vs[j].x, vs[j].y), V2V_RANGE)
          THEN << Link("V2V", vs[i].x, vs[i].y, vs[j].x, vs[j].y) >> ELSE << >>)
         \o V2VLinks(vs, i, j + 1)

\* V2I links of one vehicle
V2ILinks(rev, v) ==
    LET near == IF rev = "B" /\ v.isEmergency
                THEN BroadcastTargets(rev, v)
                ELSE SelectSeq(<<1, 2, 3, 4>>,
                         LAMBDA id : Closer(DistSq(v.x, v.y, IX(rev, id), IY(rev, id)),
                                            V2I_REGULAR_COMMUNICATION_DISTANCE))
    IN  [k \in 1 .. Len(near) |->
            Link("V2I", v.x, v.y, IX(rev, near[k]), IY(rev, near[k]))]

RECURSIVE AllLinks(_, _, _)
AllLinks(rev, vs, i) ==
    IF i > Len(vs) THEN << >>
    ELSE V2VLinks(vs, i, i + 1) \o V2ILinks(rev, vs[i]) \o AllLinks(rev, vs, i + 1)

\* the V2V / V2I link interval
CommunicationCycle ==
    /\ ~isPaused
    /\ ~effectPending
    /\ LET links == AllLinks(revision, vehicles, 1)
       IN  /\ communicationLinks' = links
           /\ statistics' = [statistics EXCEPT !.communicationMessages = Len(links)]
    /\ UNCHANGED <<call, heldGreen, timerCalls, revision, isPaused, simulationSpeed, vehicles, intersections,
                   emergencyActive, v2iMessages, effectPending>>

----------------------------------------------------------------------------
(* Initial state: after the mount effects have run                         *)

EngineInit(rev, speed) ==
    /\ revision = rev
    /\ isPaused = FALSE
    /\ simulationSpeed = speed
    /\ vehicles = << >>
    /\ intersections = [i \in IntersectionIds |->
                          PreemptIntersection(rev, i, InitialIntersection(rev, i), << >>)]
    /\ emergencyActive = FALSE
    /\ communicationLinks = << >>
    /\ v2iMessages = << >>
    /\ statistics = IF rev = "D"
                    THEN [totalVehicles |-> 0, emergencyEvents |-> 0,
                          communicationMessages |-> 0]
                    ELSE [totalVehicles |-> 0, emergencyEvents |-> 0,
                          communicationMessages |-> 0, v2iBroadcasts |-> 0]
    /\ effectPending = FALSE
    /\ timerCalls = 0
    /\ heldGreen = [i \in IntersectionIds |-> HoldingGreen(rev, intersections[i])]

InitRevision(rev, speed) ==
    /\ EngineInit(rev, speed)
    /\ call = NoCall

----------------------------------------------------------------------------
(* Commands of the control panel and the specifications                    *)

MaxSpawns == 2
MaxSpawnDelay == 3
MaxBroadcasts == 2

\* the whole engine state starts from the mount-time state of one revision,
\* with the speed slider already set
InitAt(revs, speeds) == \E rev \in revs, s \in speeds : InitRevision(rev, s)

\* addVehicle called for a non-emergency type: any of the sixteen routes
SpawnRegular(types, routes) ==
    \E type \in types, r \in routes : AddVehicle(type, "null", r, 1)

\* addVehicle called for an emergency type that goes straight
SpawnEmergency(intents, routes) ==
    \E turnDirection \in intents, r \in routes :
        AddVehicle("emergency", turnDirection, r, 1)

\* addVehicle called for an emergency type with a turn: one of four turn routes
SpawnTurning(intents, approaches) ==
    \E turnDirection \in intents, t \in approaches :
        AddVehicle("emergency", turnDirection, 1, t)

\* removeVehicle called for a vehicle of the list
RemoveSome == \E k \in 1 .. Len(vehicles) : RemoveVehicle(vehicles[k].id)

\* the pause button: setIsPaused(!isPaused)
TogglePause == SetIsPaused(~isPaused)

\* the speed slider moved to one of the given positions
ChangeSpeed(speeds) ==
    \E next \in speeds : next # simulationSpeed /\ SetSimulationSpeed(next)

(* Spec: emergency preemption at the fastest multiplier.  Revision A takes *)
(* up to MaxSpawns vehicles, revision B one vehicle.                       *)

SpawnLimit == IF revision = "A" THEN MaxSpawns ELSE 1

Spawn ==
    /\ statistics.totalVehicles < SpawnLimit
    /\ revision = "B" => timerCalls <= MaxSpawnDelay
    /\ \/ SpawnRegular({"car"}, {1, 11})
       \/ SpawnEmergency({"null"}, {1, 11})
       \/ SpawnTurning({"left", "right"}, {1})

Init == InitAt({"A", "B"}, {6})

Next ==
    \/ SignalTick
    \/ VehicleTick
    \/ EmergencyPriorityEffect
    \/ Spawn
    \/ RemoveSome

Spec == Init /\ [][Next]_vars

(* SpecLone: one emergency vehicle, on any straight route or any turn      *)
(* route, every multiplier, both revisions.                                *)

SpawnLone ==
    /\ statistics.totalVehicles = 0
    /\ revision = "B" => timerCalls <= MaxSpawnDelay
    /\ \/ SpawnEmergency({"null", "straight"}, 1 .. 16)
       \/ SpawnTurning({"left", "right"}, 1 .. 4)

InitLone == InitAt({"A", "B"}, AllowedSpeeds)

NextLone ==
    \/ SignalTick
    \/ VehicleTick
    \/ EmergencyPriorityEffect
    \/ SpawnLone

SpecLone == InitLone /\ [][NextLone]_vars

(* SpecQueue: revision A, a bus, then a car behind it on the bottom road   *)
(* going WEST, then an emergency vehicle going NORTH on the right road.    *)

SpawnQueue ==
    \/ statistics.totalVehicles = 0 /\ SpawnRegular({"bus"}, {7})
    \/ statistics.totalVehicles = 1 /\ SpawnRegular({"car"}, {7})
    \/ statistics.totalVehicles = 2 /\ SpawnEmergency({"null"}, {15})

RemoveEmergency ==
    \E k \in 1 .. Len(vehicles) : vehicles[k].isEmergency /\ RemoveVehicle(vehicles[k].id)

InitQueue == InitAt({"A"}, {6})

NextQueue ==
    \/ SignalTick
    \/ VehicleTick
    \/ EmergencyPriorityEffect
    \/ SpawnQueue
    \/ RemoveEmergency

SpecQueue == InitQueue /\ [][NextQueue]_vars

(* SpecComm: revision A with the communication simulator and every command *)

SpawnComm ==
    /\ statistics.totalVehicles = 0
    /\ \/ SpawnRegular({"car"}, {1})
       \/ SpawnEmergency({"null"}, {1})

BoundedV2IBroadcast ==
    /\ statistics.v2iBroadcasts < MaxBroadcasts
    /\ V2IBroadcast

InitComm == InitAt({"A"}, {6})

NextComm ==
    \/ SignalTick
    \/ VehicleTick
    \/ EmergencyPriorityEffect
    \/ SpawnComm
    \/ TogglePause
    \/ BoundedV2IBroadcast
    \/ CommunicationCycle

SpecComm == InitComm /\ [][NextComm]_vars

(* FairSpec: revision A, one vehicle going EAST on the top road (either    *)
(* lane) at 1x or 3x, the three callbacks run whenever they stay enabled.  *)

SpawnAny ==
    /\ statistics.totalVehicles = 0
    /\ \/ SpawnRegular({"car", "bus"}, {1, 2})
       \/ SpawnEmergency({"null"}, {1, 2})

\* the slider is moved between 1x and 3x while no vehicle is on the road
ChangeSpeedWhileEmpty ==
    /\ vehicles = << >>
    /\ ChangeSpeed({2, 6})

InitFair == InitAt({"A"}, {2, 6})

NextFair ==
    \/ SignalTick
    \/ VehicleTick
    \/ EmergencyPriorityEffect
    \/ SpawnAny
    \/ ChangeSpeedWhileEmpty

FairSpec ==
    /\ InitFair
    /\ [][NextFair]_vars
    /\ WF_vars(SignalTick)
    /\ WF_vars(VehicleTick)
    /\ WF_vars(EmergencyPriorityEffect)

(* SpecTwoPhase: the two-phase revisions C and D at 3x with one vehicle:   *)
(* in C a car on the top road (either lane) or on the left road, an        *)
(* emergency vehicle going SOUTH on the left road, or a turning emergency  *)
(* vehicle approaching NORTH or EAST; in D a car or an emergency vehicle   *)
(* on any of its six routes, spawned after a multiple of SpawnPeriod        *)
(* callbacks.                                                              *)

SpawnPeriod == 30

SpawnTwoPhase ==
    /\ statistics.totalVehicles = 0
    /\ timerCalls % SpawnPeriod = 0
    /\ \/ /\ revision = "C"
          /\ \/ SpawnRegular({"car"}, {1, 2, 11})
             \/ SpawnEmergency({"null"}, {9})
             \/ SpawnTurning({"left", "right"}, {1, 2})
       \/ /\ revision = "D"
          /\ \/ SpawnRegular({"car"}, 1 .. 6)
             \/ SpawnEmergency({"null"}, 1 .. 6)

InitTwoPhase == InitAt({"C", "D"}, {6})

NextTwoPhase ==
    \/ SignalTick
    \/ VehicleTick
    \/ EmergencyPriorityEffect
    \/ SpawnTwoPhase

SpecTwoPhase == InitTwoPhase /\ [][NextTwoPhase]_vars

(* SpecRoadGrid: one call of a RoadGrid method with arguments drawn from   *)
(* the valid ranges and from just outside them.                            *)

InitRoadGrid ==
    /\ EngineInit("C", 2)
    /\ call \in PendingCalls

NextRoadGrid ==
    \/ CallGetVerticalRoadLaneX
    \/ CallGetHorizontalRoadLaneY
    \/ CallFindRoadIndexAfterTurn

SpecRoadGrid == InitRoadGrid /\ [][NextRoadGrid]_vars

(* SpecPause: revision A at 3x with the pause button: up to two vehicles   *)
(* (a car going EAST on the top road, an emergency vehicle going EAST on    *)
(* it or NORTH on the left road), spawned and removed at any time.          *)

SpawnPause ==
    /\ statistics.totalVehicles < MaxSpawns
    /\ \/ SpawnRegular({"car"}, {1})
       \/ SpawnEmergency({"null"}, {1, 11})

InitPause == InitAt({"A"}, {6})

NextPause ==
    \/ SignalTick
    \/ VehicleTick
    \/ EmergencyPriorityEffect
    \/ SpawnPause
    \/ RemoveSome
    \/ TogglePause

SpecPause == InitPause /\ [][NextPause]_vars

(* SpecPlan: route planning of revisions B and C.  An emergency vehicle    *)
(* with a turn intent is spawned on any of its routes, and the planning     *)
(* rule of addVehicle is applied to a vehicle standing at any point of a    *)
(* grid of positions that reaches beyond the spawn points, so that scans    *)
(* finding four, two, one and no intersection all occur.                    *)

PlanCoordinates == {-450, -50, 252, 488, 740, 950, 1550}

PendingPlans ==
    { [NoCall EXCEPT !.method = "planTurn", !.direction = d,
                     !.x = Px(px), !.y = Px(py)] :
          d \in {"NORTH", "SOUTH", "EAST", "WEST"},
          px \in PlanCoordinates, py \in PlanCoordinates }

\* the route-planning block of addVehicle for a vehicle at (call.x, call.y)
PlanTurn ==
    /\ call.method = "planTurn"
    /\ ReturnFrom(PlannedTurnIntersectionId(revision, TRUE, "left",
                                            call.direction, call.x, call.y))

SpawnPlan ==
    /\ statistics.totalVehicles = 0
    /\ \/ SpawnTurning({"left", "right"}, 1 .. 4)
       \/ SpawnEmergency({"uturn"}, 1 .. 16)

InitPlan ==
    /\ \E rev \in {"B", "C"} : EngineInit(rev, 2)
    /\ call \in PendingPlans

NextPlan ==
    \/ PlanTurn
    \/ SpawnPlan
    \/ EmergencyPriorityEffect

SpecPlan == InitPlan /\ [][NextPlan]_vars

----------------------------------------------------------------------------
(* Properties                                                              *)

Dist2To(v, id) == DistSq(v.x, v.y, IX(revision, id), IY(revision, id))

GreenDirections(int) == {d \in DirKeys : int.signals[d].phase = "GREEN"}

\* C1: in every reachable state each intersection has at most one direction
\* whose phase is GREEN.
C1_AtMostOneGreen ==
    \A i \in IntersectionIds : Cardinality(GreenDirections(intersections[i])) <= 1

\* an override is in force and the only GREEN is not the direction the
\* intersection started with
C1_Witness ==
    \E i \in IntersectionIds :
        /\ intersections[i].emergencyOverride
        /\ Cardinality(GreenDirections(intersections[i])) = 1
        /\ InitialGreen(i) \notin GreenDirections(intersections[i])

LoneStraightEmergency ==
    /\ statistics.totalVehicles = 1
    /\ Len(vehicles) = 1
    /\ vehicles[1].isEmergency
    /\ vehicles[1].turnDirection \in {"null", "straight"}

\* C2: when an emergency vehicle that is alone on a straight route first comes
\* closer than PREEMPTION_MIN_DISTANCE to an intersection, the signal for its
\* direction at that intersection is already GREEN in the state before.
C2_GreenBeforeArrival ==
    [][(LoneStraightEmergency /\ Len(vehicles') = 1) =>
          \A id \in IntersectionIds :
              (/\ ~Closer(Dist2To(vehicles[1], id), PREEMPTION_MIN_DISTANCE)
               /\ Closer(Dist2To(vehicles'[1], id), PREEMPTION_MIN_DISTANCE))
              => intersections[id].signals[Lower(vehicles[1].direction)].phase = "GREEN"
      ]_vars

\* the lone vehicle is inside PREEMPTION_MIN_DISTANCE at the slowest multiplier
\* and its signal is GREEN
C2_Witness ==
    /\ LoneStraightEmergency
    /\ simulationSpeed = 1
    /\ \E id \in IntersectionIds :
          /\ Closer(Dist2To(vehicles[1], id), PREEMPTION_MIN_DISTANCE)
          /\ intersections[id].signals[Lower(vehicles[1].direction)].phase = "GREEN"
          /\ InitialGreen(id) # Lower(vehicles[1].direction)

NoEmergencyNear(id) ==
    \A k \in 1 .. Len(vehicles) :
        vehicles[k].isEmergency =>
            Farther(Dist2To(vehicles[k], id), EMERGENCY_CLEAR_DISTANCE)

\* C3: once the preemption pass has run, an intersection that has no emergency
\* vehicle within EMERGENCY_CLEAR_DISTANCE has emergencyOverride false.
C3_OverrideCleared ==
    ~effectPending =>
        \A id \in IntersectionIds :
            NoEmergencyNear(id) => ~intersections[id].emergencyOverride

\* an emergency vehicle has passed an intersection, is farther than
\* EMERGENCY_CLEAR_DISTANCE from it, the signals still show the direction it
\* was granted, and the override is off
C3_Witness ==
    /\ ~effectPending
    /\ \E id \in IntersectionIds, k \in 1 .. Len(vehicles) :
          /\ vehicles[k].isEmergency
          /\ ~IsInPath(revision, vehicles[k].direction, vehicles[k].x, vehicles[k].y, id)
          /\ NoEmergencyNear(id)
          /\ GreenDirections(intersections[id]) = {Lower(vehicles[k].direction)}
          /\ InitialGreen(id) # Lower(vehicles[k].direction)
          /\ ~intersections[id].emergencyOverride

\* C4: an intersection whose emergencyOverride is true keeps it true over every
\* step in which some emergency vehicle is within EMERGENCY_CLEAR_DISTANCE of
\* it before and after the step.
C4_OverrideHeld ==
    [][\A id \in IntersectionIds :
          (/\ intersections[id].emergencyOverride
           /\ \E k \in 1 .. Len(vehicles), j \in 1 .. Len(vehicles') :
                 /\ vehicles[k].isEmergency
                 /\ vehicles'[j].id = vehicles[k].id
                 /\ Closer(Dist2To(vehicles[k], id), EMERGENCY_CLEAR_DISTANCE)
                 /\ Closer(Dist2To(vehicles'[j], id), EMERGENCY_CLEAR_DISTANCE))
          => intersections'[id].emergencyOverride
      ]_vars

\* one emergency vehicle is inside PREEMPTION_MIN_DISTANCE of an intersection,
\* another is beyond EMERGENCY_CLEAR_DISTANCE, and the override is off
C4_Witness ==
    /\ ~effectPending
    /\ \E id \in IntersectionIds, k, j \in 1 .. Len(vehicles) :
          /\ vehicles[k].isEmergency
          /\ vehicles[j].isEmergency
          /\ Closer(Dist2To(vehicles[k], id), PREEMPTION_MIN_DISTANCE)
          /\ Farther(Dist2To(vehicles[j], id), EMERGENCY_CLEAR_DISTANCE)
          /\ ~intersections[id].emergencyOverride

FacesRedOrYellow(v) ==
    \E id \in IntersectionIds :
        /\ Closer(Dist2To(v, id), INTERSECTION_CHECK_DISTANCE)
        /\ intersections[id].signals[Lower(v.direction)].phase \in {"RED", "YELLOW"}

\* C5: a non-emergency vehicle without emergency clearance that is within
\* INTERSECTION_CHECK_DISTANCE of an intersection showing RED or YELLOW for its
\* direction, while no emergency vehicle is within DETECTION_DISTANCE of any
\* intersection, has the same position after the step.
C5_HoldsAtRed ==
    [][\A k \in 1 .. Len(vehicles) :
          (/\ ~vehicles[k].isEmergency
           /\ ~AllowedToMoveForEmergency(revision, vehicles, vehicles[k])
           /\ ~EmergencyApproaching(revision, vehicles)
           /\ FacesRedOrYellow(vehicles[k]))
          => \A j \in 1 .. Len(vehicles') :
                 vehicles'[j].id = vehicles[k].id
                 => (vehicles'[j].x = vehicles[k].x /\ vehicles'[j].y = vehicles[k].y)
      ]_vars

\* a car is following inside the check distance of a RED signal with no
\* emergency vehicle in the list
C5_Witness ==
    /\ EmergencyVehicles(vehicles) = << >>
    /\ \E k \in 1 .. Len(vehicles) :
          /\ vehicles[k].status = "following"
          /\ FacesRedOrYellow(vehicles[k])

\* the straight route a vehicle was spawned on, 0 for a turn route
RouteOf(v) ==
    LET rs == {r \in 1 .. 16 :
                 /\ Routes(revision)[r].direction = v.direction
                 /\ Routes(revision)[r].ex = v.targetX
                 /\ Routes(revision)[r].ey = v.targetY}
    IN  IF v.path # << >> \/ rs = {} THEN 0 ELSE CHOOSE r \in rs : TRUE

\* distance covered since the spawn point
Travelled(v) ==
    Abs(v.x - Routes(revision)[RouteOf(v)].sx) + Abs(v.y - Routes(revision)[RouteOf(v)].sy)

\* the longest displacement of one tick: the emergency speed at this multiplier
MaxStep == 40 * simulationSpeed

\* C6: two vehicles on the same route are at least SAFE_DISTANCE apart once
\* the later one has travelled more than one tick can cover.
C6_SafeDistanceKept ==
    \A i, j \in 1 .. Len(vehicles) :
        (/\ vehicles[i].id < vehicles[j].id
         /\ RouteOf(vehicles[i]) # 0
         /\ RouteOf(vehicles[i]) = RouteOf(vehicles[j])
         /\ Travelled(vehicles[j]) > MaxStep)
        => ~Closer(DistSq(vehicles[i].x, vehicles[i].y, vehicles[j].x, vehicles[j].y),
                   SAFE_DISTANCE)

\* the later vehicle is far down the route and still closer than SAFE_DISTANCE
C6_Witness ==
    \E i, j \in 1 .. Len(vehicles) :
        /\ vehicles[i].id < vehicles[j].id
        /\ RouteOf(vehicles[i]) # 0
        /\ RouteOf(vehicles[i]) = RouteOf(vehicles[j])
        /\ Travelled(vehicles[j]) > 10 * MaxStep
        /\ Closer(DistSq(vehicles[i].x, vehicles[i].y, vehicles[j].x, vehicles[j].y),
                  SAFE_DISTANCE)

Clockwise(d) ==
    CASE d = "NORTH" -> "EAST" [] d = "EAST" -> "SOUTH"
      [] d = "SOUTH" -> "WEST" [] d = "WEST" -> "NORTH"

CounterClockwise(d) ==
    CASE d = "NORTH" -> "WEST" [] d = "WEST" -> "SOUTH"
      [] d = "SOUTH" -> "EAST" [] d = "EAST" -> "NORTH"

AtTurnWaypoint(v) ==
    /\ v.pathIndex = 1
    /\ Closer(DistSq(v.x, v.y, v.targetX, v.targetY), WAYPOINT_REACH_DISTANCE)
    /\ revision = "B" => CurrentIntersectionId(revision, v) = v.plannedTurnIntersectionId

\* what the kinematics tick makes of one vehicle of the current list: << >>
\* when it removes it, a one-element sequence otherwise
TickOf(v) == UpdateVehicle(revision, simulationSpeed, vehicles, intersections, v)

Present(id, vs) == \E j \in 1 .. Len(vs) : vs[j].id = id

\* C7: a turning emergency vehicle changes direction only in the step in which
\* it is at its turn waypoint (at the planned intersection), it does change
\* direction in the step that takes it past the waypoint, the new direction
\* is the clockwise successor for 'right', the counter-clockwise one for 'left',
\* and no tick removes the vehicle before it has turned.
C7_TurnsOnceAtWaypoint ==
    [][\A k \in 1 .. Len(vehicles) :
          (vehicles[k].isEmergency /\ vehicles[k].turnDirection \in {"left", "right"})
          => /\ \A j \in 1 .. Len(vehicles') :
                   vehicles'[j].id = vehicles[k].id
                   => /\ vehicles'[j].direction # vehicles[k].direction
                         => /\ AtTurnWaypoint(vehicles[k])
                            /\ vehicles'[j].direction =
                                   IF vehicles[k].turnDirection = "right"
                                   THEN Clockwise(vehicles[k].direction)
                                   ELSE CounterClockwise(vehicles[k].direction)
                      /\ vehicles'[j].pathIndex # vehicles[k].pathIndex
                         => vehicles'[j].direction # vehicles[k].direction
             /\ (vehicles[k].pathIndex = 1 /\ ~Present(vehicles[k].id, vehicles'))
                => TickOf(vehicles[k]) # << >>
      ]_vars

\* a turning vehicle is past its waypoint and still has its spawn direction
C7_Witness ==
    \E k \in 1 .. Len(vehicles) :
        /\ vehicles[k].isEmergency
        /\ vehicles[k].turnDirection = "right"
        /\ vehicles[k].pathIndex = 2
        /\ vehicles[k].direction # vehicles[k].turnTo

\* squared displacement between two records
MovedSq(v, w) == DistSq(v.x, v.y, w.x, w.y)

\* displacement of one full step speed * multiplier (to the rounding of a
\* diagonal move)
FullStep(v, w) ==
    /\ MovedSq(v, w) >= Sq(v.speed * simulationSpeed - 1)
    /\ MovedSq(v, w) <= Sq(v.speed * simulationSpeed + 1)

\* the vehicle is where a tick removes it: within DESTINATION_REACH_DISTANCE of
\* its current target, or within WAYPOINT_REACH_DISTANCE of the last path point
AtRemovalPoint(v) ==
    \/ Closer(DistSq(v.x, v.y, v.targetX, v.targetY), DESTINATION_REACH_DISTANCE)
    \/ /\ v.path # << >>
       /\ v.pathIndex + 1 = Len(v.path)
       /\ Closer(DistSq(v.x, v.y, v.targetX, v.targetY), WAYPOINT_REACH_DISTANCE)

C9_EventuallyRemoved == [](vehicles # << >> => <>(vehicles = << >>))

\* a lone car going EAST on lane 1 of the top road is stopped at a RED signal
C9_Witness ==
    /\ Len(vehicles) = 1
    /\ vehicles[1].type = "car"
    /\ vehicles[1].direction = "EAST"
    /\ vehicles[1].lane = 1
    /\ vehicles[1].stopped
    /\ FacesRedOrYellow(vehicles[1])

\* C10: a step of the communication simulator (one that changes the links,
\* the messages or the two communication counters) leaves the vehicle list,
\* the intersection list and every other engine variable unchanged.
C10_CommunicationObservesOnly ==
    [][(\/ communicationLinks' # communicationLinks
        \/ v2iMessages' # v2iMessages
        \/ statistics'.v2iBroadcasts # statistics.v2iBroadcasts
        \/ statistics'.communicationMessages # statistics.communicationMessages)
       => /\ vehicles' = vehicles
          /\ intersections' = intersections
          /\ emergencyActive' = emergencyActive
          /\ isPaused' = isPaused
          /\ simulationSpeed' = simulationSpeed
          /\ effectPending' = effectPending
          /\ statistics'.totalVehicles = statistics.totalVehicles
          /\ statistics'.emergencyEvents = statistics.emergencyEvents
      ]_vars

\* a broadcast has been sent and a link drawn while an override is in force
C10_Witness ==
    /\ v2iMessages # << >>
    /\ communicationLinks # << >>
    /\ statistics.v2iBroadcasts > 0
    /\ \E i \in IntersectionIds : intersections[i].emergencyOverride

\* the lane centre RoadGrid gives for the road index, lane and direction of v
LaneCentre(v) ==
    IF v.direction \in {"NORTH", "SOUTH"}
    THEN GetVerticalRoadLaneX(v.currentRoadIndex, v.lane, v.direction)
    ELSE GetHorizontalRoadLaneY(v.currentRoadIndex, v.lane, v.direction)

\* x for NORTH/SOUTH travel, y for EAST/WEST travel
CrossTravelCoordinate(v) == IF v.direction \in {"NORTH", "SOUTH"} THEN v.x ELSE v.y

\* calculateLanePosition's test of a vehicle that is not executing a turn
NotTurning(v) == v.path = << >> \/ v.pathIndex >= Len(v.path)

\* C11: in the RoadGrid revision, in every state from spawn onward, every
\* vehicle that is not executing a turn has its cross-travel coordinate equal
\* to the RoadGrid lane centre of its road index, lane and direction
C11_LaneCentreKept ==
    revision = "C" =>
        \A k \in 1 .. Len(vehicles) :
            NotTurning(vehicles[k]) =>
                CrossTravelCoordinate(vehicles[k]) = LaneCentre(vehicles[k])

\* a vehicle that has left its spawn point, sits on its lane centre and is
\* held at a signal
C11_Witness ==
    /\ revision = "C"
    /\ \E k \in 1 .. Len(vehicles) :
          /\ NotTurning(vehicles[k])
          /\ vehicles[k].stopped
          /\ CrossTravelCoordinate(vehicles[k]) = LaneCentre(vehicles[k])

\* the vehicle of the list vs that carries the id of v, as a set (empty when
\* the vehicle has been removed)
SameVehicleIn(vs, v) == {vs[k] : k \in {j \in 1 .. Len(vs) : vs[j].id = v.id}}

\* C12: while the simulation is paused, over every step (timer firing, spawn
\* or remove command, effect) no vehicle that stays in the list changes its
\* state and no intersection changes its signals, timers or emergencyOverride
\* flag, so that on resume every timer and position continues from its value
C12_PauseFreezes ==
    [][ (isPaused /\ isPaused') =>
            /\ \A k \in 1 .. Len(vehicles) :
                   SameVehicleIn(vehicles', vehicles[k]) \subseteq {vehicles[k]}
            /\ \A i \in IntersectionIds :
                   /\ intersections'[i].signals = intersections[i].signals
                   /\ intersections'[i].emergencyOverride
                          = intersections[i].emergencyOverride ]_vars

\* the simulation is paused while an emergency vehicle holds an override
C12_Witness ==
    /\ isPaused
    /\ ~effectPending
    /\ EmergencyVehicles(vehicles) # << >>
    /\ \E i \in IntersectionIds : intersections[i].emergencyOverride

\* the intersection lies ahead of (x, y) in the direction of travel: the
\* component of the vector to it along the direction is positive
LiesAhead(direction, x, y, id) ==
    LET ux == CASE direction = "EAST" -> 1 [] direction = "WEST" -> -1 [] OTHER -> 0
        uy == CASE direction = "SOUTH" -> 1 [] direction = "NORTH" -> -1 [] OTHER -> 0
    IN  (IX(revision, id) - x) * ux + (IY(revision, id) - y) * uy > 0

\* the intersections the scan at spawn considers: ahead and within 1000 px
ScannedAhead(direction, x, y) ==
    {id \in IntersectionIds :
        /\ LiesAhead(direction, x, y, id)
        /\ DistSq(x, y, IX(revision, id), IY(revision, id)) <= Sq(Px(1000))}

\* id is the n-th nearest of the set ids as seen from (x, y); intersections
\* at equal distance count in list order
NthNearest(ids, x, y, id, n) ==
    LET d2(i) == DistSq(x, y, IX(revision, i), IY(revision, i))
    IN  /\ id \in ids
        /\ Cardinality({j \in ids : d2(j) < d2(id) \/ (d2(j) = d2(id) /\ j < id)}) = n - 1

\* the plan the claim asks for: the second-nearest when two or more lie
\* ahead, else the single one, else none (0)
PlanAsClaimed(direction, x, y, planned) ==
    LET ahead == ScannedAhead(direction, x, y)
    IN  IF Cardinality(ahead) >= 2 THEN NthNearest(ahead, x, y, planned, 2)
        ELSE IF Cardinality(ahead) = 1 THEN ahead = {planned}
        ELSE planned = 0

C14_ActiveIffEmergencyPresent ==
    ~effectPending => (emergencyActive <=> EmergencyVehicles(vehicles) # << >>)

\* an emergency vehicle has been spawned and is gone again (removed or
\* arrived), a car is still on the road, and the flag is down
C14_Witness ==
    /\ ~effectPending
    /\ statistics.emergencyEvents > 0
    /\ vehicles # << >>
    /\ EmergencyVehicles(vehicles) = << >>
    /\ ~emergencyActive

\* the axis ("north-south" or "east-west") shows GREEN at an intersection of
\* a two-phase revision: a GREEN signal of the axis in C, the phase in D
AxisGreen(int, axis) ==
    IF revision = "D"
    THEN int.phase = (IF axis = "north-south" THEN "NS_GREEN" ELSE "EW_GREEN")
    ELSE \E d \in DirKeys :
             /\ (d \in {"north", "south"}) <=> (axis = "north-south")
             /\ int.signals[d] = "GREEN"

\* the axis holds the right of way: GREEN, or the YELLOW that follows its GREEN
AxisHasRightOfWay(int, axis) ==
    \/ AxisGreen(int, axis)
    \/ /\ revision = "D"
       /\ int.phase = (IF axis = "north-south" THEN "NS_YELLOW" ELSE "EW_YELLOW")

\* C15 as stated: in the two-phase model every intersection has, in every
\* state, exactly one axis GREEN, never both and never neither
C15_ExactlyOneAxisGreen ==
    revision \in {"C", "D"} =>
        \A i \in IntersectionIds :
            AxisGreen(intersections[i], "north-south")
                <=> ~AxisGreen(intersections[i], "east-west")

\* C15: in the two-phase model no intersection ever has both axes GREEN, and
\* exactly one axis holds the right of way (GREEN, or YELLOW in the revision
\* that has a yellow phase); without a yellow phase exactly one axis is GREEN.
\* This holds during normal cycling, during an override and after it.
C15_OneAxisHasRightOfWay ==
    revision \in {"C", "D"} =>
        \A i \in IntersectionIds :
            /\ ~(AxisGreen(intersections[i], "north-south")
                    /\ AxisGreen(intersections[i], "east-west"))
            /\ AxisHasRightOfWay(intersections[i], "north-south")
                   <=> ~AxisHasRightOfWay(intersections[i], "east-west")
            /\ revision = "C" =>
                   (AxisGreen(intersections[i], "north-south")
                        <=> ~AxisGreen(intersections[i], "east-west"))

\* after an override: the emergency vehicle is gone, the override is cleared,
\* and an intersection still shows the axis the override forced, which is not
\* the axis of its current phase
C15_Witness ==
    /\ revision = "C"
    /\ ~effectPending
    /\ statistics.emergencyEvents > 0
    /\ vehicles = << >>
    /\ \E i \in IntersectionIds :
          /\ ~intersections[i].emergencyOverride
          /\ ~AxisGreen(intersections[i], intersections[i].currentPhase)

\* the call names a road, a lane and a direction that exist on that road
WellFormedLaneCall(c) ==
    /\ c.method \in {"getVerticalRoadLaneX", "getHorizontalRoadLaneY"}
    /\ c.roadIndex \in RoadIndices
    /\ c.lane \in {1, 2}
    /\ c.direction \in (IF c.method = "getVerticalRoadLaneX"
                        THEN {"NORTH", "SOUTH"} ELSE {"EAST", "WEST"})

\* the lane coordinate and the centre line the method of call c works with
LaneCoordinateOf(c, lane, direction) ==
    IF c.method = "getVerticalRoadLaneX"
    THEN GetVerticalRoadLaneX(c.roadIndex, lane, direction)
    ELSE GetHorizontalRoadLaneY(c.roadIndex, lane, direction)

CentreLineOf(c) ==
    IF c.method = "getVerticalRoadLaneX" THEN VerticalRoadCenterX(c.roadIndex)
    ELSE HorizontalRoadCenterY(c.roadIndex)

OppositeDirection(d) ==
    CASE d = "NORTH" -> "SOUTH" [] d = "SOUTH" -> "NORTH"
      [] d = "EAST" -> "WEST" [] d = "WEST" -> "EAST"

\* C16: for every road, the coordinate returned for a lane and direction lies
\* on the other side of the centre line from both lanes of the opposite
\* direction, differs from the coordinate of every other (lane, direction)
\* pair of the road, and for lane 2 is strictly farther from the centre line
\* than lane 1 of the same direction
C16_LaneGeometry ==
    (call.returned /\ WellFormedLaneCall(call)) =>
        LET centre == CentreLineOf(call)
            side(c) == IF c > centre THEN 1 ELSE IF c < centre THEN -1 ELSE 0
            opp    == OppositeDirection(call.direction)
        IN  /\ side(call.value) # 0
            /\ \A l \in {1, 2} :
                   side(LaneCoordinateOf(call, l, opp)) = 0 - side(call.value)
            /\ \A l \in {1, 2}, d \in {call.direction, opp} :
                   (l # call.lane \/ d # call.direction)
                       => LaneCoordinateOf(call, l, d) # call.value
            /\ call.lane = 2 =>
                   Abs(call.value - centre)
                       > Abs(LaneCoordinateOf(call, 1, call.direction) - centre)

\* lane 2 of the SOUTH direction has been computed for the right-hand road
C16_Witness ==
    /\ call.returned
    /\ WellFormedLaneCall(call)
    /\ call.method = "getVerticalRoadLaneX"
    /\ call.roadIndex = 1 /\ call.lane = 2 /\ call.direction = "SOUTH"
    /\ call.value = Px(970) - (3 * LaneWidth) \div 2

\* the call carries an argument outside what RoadGrid describes: a road
\* index or lane that does not exist, a direction the road does not carry,
\* an unknown intersection id or a direction that is none of the four
MalformedCall(c) ==
    \/ /\ c.method \in {"getVerticalRoadLaneX", "getHorizontalRoadLaneY"}
       /\ ~WellFormedLaneCall(c)
    \/ /\ c.method = "findRoadIndexAfterTurn"
       /\ \/ c.intersectionId \notin IntersectionIds
          \/ c.direction \notin {"NORTH", "SOUTH", "EAST", "WEST"}

\* C17: a call of a RoadGrid method with a malformed road index, lane number
\* or direction is rejected, and so never returns the lane coordinate of some
\* other road or lane
C17_MalformedRejected ==
    (call.returned /\ MalformedCall(call)) => call.rejected

\* lane 3 of a road has been asked for and the coordinate of lane 2 returned
C17_Witness ==
    /\ call.returned
    /\ call.method = "getVerticalRoadLaneX"
    /\ call.roadIndex \in RoadIndices
    /\ call.lane = 3
    /\ ~call.rejected
    /\ call.value = GetVerticalRoadLaneX(call.roadIndex, 2, call.direction)


(* SpecIntent: revision A at 3x, one emergency vehicle spawned with any    *)
(* turn intent a caller can pass, 'uturn' included, on any route.          *)

SpawnIntent ==
    /\ statistics.totalVehicles = 0
    /\ \/ SpawnEmergency({"straight", "uturn"}, 1 .. 16)
       \/ SpawnTurning({"left", "right"}, 1 .. 4)

InitIntent == InitAt({"A"}, {6})

NextIntent ==
    \/ SignalTick
    \/ VehicleTick
    \/ EmergencyPriorityEffect
    \/ SpawnIntent

SpecIntent == InitIntent /\ [][NextIntent]_vars

\* addVehicle called for an emergency vehicle whose turn intent has no entry
\* in emergencyTurnRoutes and is not 'straight'
UnmatchedSpawn == \E r \in 1 .. 16 : AddVehicle("emergency", "uturn", r, 1)

\* C18: a spawn request for which no matching route template exists (an
\* emergency vehicle with a turn intent other than straight, left or right)
\* is rejected: no vehicle is created and the vehicle list, the statistics
\* and emergencyActive are unchanged
C18_UnmatchedSpawnRejected ==
    [][UnmatchedSpawn => UNCHANGED <<vehicles, statistics, emergencyActive>>]_vars

\* an emergency vehicle with the intent 'uturn' is on a straight route, has
\* been counted and has raised emergencyActive
C18_Witness ==
    /\ Len(vehicles) = 1
    /\ vehicles[1].isEmergency
    /\ vehicles[1].turnDirection = "uturn"
    /\ vehicles[1].path = << >>
    /\ statistics.totalVehicles = 1
    /\ statistics.emergencyEvents = 1
    /\ emergencyActive


(* SpecSignals: the four-phase signal timers of revisions A and B on an    *)
(* empty road at 1x and 3x: no vehicle, so no override is ever set.        *)

InitSignals == InitAt({"A", "B"}, {2, 6})

NextSignals ==
    \/ SignalTick
    \/ VehicleTick
    \/ EmergencyPriorityEffect

SpecSignals == InitSignals /\ [][NextSignals]_vars

\* direction d is not GREEN at intersection i before the step and is after it
BecomesGreen(i, d) ==
    /\ d \notin HoldingGreen(revision, intersections[i])
    /\ d \in HoldingGreen(revision, intersections'[i])

\* C19: in the four-phase model with no override the directions that hold
\* GREEN follow the cyclic order north, east, south, west from the initial
\* state on: at every intersection the direction that becomes GREEN is the
\* successor of the direction that held GREEN last
C19_RoundRobinOrder ==
    [][\A i \in IntersectionIds, d \in DirKeys :
           (/\ revision \in {"A", "B"}
            /\ ~intersections[i].emergencyOverride
            /\ ~intersections'[i].emergencyOverride
            /\ BecomesGreen(i, d))
           => \A p \in heldGreen[i] : d = NextDirection(p)]_vars

\* revision B, intersection 1: north held GREEN first, every light went RED
\* and the timer path has made north GREEN again
C19_Witness ==
    /\ revision = "B"
    /\ \A i \in IntersectionIds : ~intersections[i].emergencyOverride
    /\ intersections[1].lastGreenDirection = "north"
    /\ intersections[1].signals["north"].phase = "GREEN"
    /\ heldGreen[1] = {"north"}


\* C20: a signal tick leaves an intersection whose emergencyOverride is true
\* entirely unchanged: neither its phase, nor its timer, nor its round-robin
\* bookkeeping is modified by the timer path while the override is set
C20_OverrideSuspendsTimer ==
    [][SignalTick =>
           \A i \in IntersectionIds :
               intersections[i].emergencyOverride
                   => intersections'[i] = intersections[i]]_vars

\* revision C: an intersection is held by an override and its phase time lags
\* behind that of an intersection without override, so signal ticks have
\* passed it by
C20_Witness ==
    /\ revision = "C"
    /\ \E i, j \in IntersectionIds :
           /\ intersections[i].emergencyOverride
           /\ ~intersections[j].emergencyOverride
           /\ intersections[i].currentPhase = intersections[j].currentPhase
           /\ intersections[i].phaseTime < intersections[j].phaseTime


\* the directions of an intersection that show the given phase
DirectionsShowing(int, phase) == {d \in DirKeys : int.signals[d].phase = phase}

\* C21: in the four-phase model, in every reachable state in which an
\* intersection's emergencyOverride is true, exactly one of its four
\* directions is GREEN and the other three are RED (none YELLOW)
C21_OverrideOneGreenRestRed ==
    \A i \in IntersectionIds :
        intersections[i].emergencyOverride
            => /\ Cardinality(DirectionsShowing(intersections[i], "GREEN")) = 1
               /\ Cardinality(DirectionsShowing(intersections[i], "RED")) = 3

\* an override granted to a turning emergency vehicle is in force: the GREEN
\* direction is the one the vehicle turns to, the direction it arrives from
\* is RED
C21_Witness ==
    \E i \in IntersectionIds, k \in 1 .. Len(vehicles) :
        /\ intersections[i].emergencyOverride
        /\ vehicles[k].isEmergency
        /\ vehicles[k].turnDirection \in {"left", "right"}
        /\ intersections[i].signals[Lower(vehicles[k].direction)].phase = "RED"
        /\ DirectionsShowing(intersections[i], "GREEN") # {}


\* the direction a vehicle travels in after its turn (lower case, as a key
\* of signals)
TurnTargetDirection(ev) ==
    CASE ev.turnDirection = "left"  -> Lower(CounterClockwise(ev.direction))
      [] ev.turnDirection = "right" -> Lower(Clockwise(ev.direction))
      [] OTHER                      -> Lower(ev.direction)

\* the direction the rule of the claim grants at intersection id
GrantAsClaimed(ev, id) ==
    IF ev.plannedTurnIntersectionId = id /\ ev.turnDirection # "straight"
    THEN TurnTargetDirection(ev)
    ELSE Lower(ev.direction)

\* C22: when preemption is applied at intersection I for an emergency
\* vehicle, the direction granted GREEN is the vehicle's turn-target direction
\* if its plannedTurnIntersectionId equals I's id and its turn is not
\* straight, and otherwise the vehicle's current direction of travel
\* (stated for a pass with a single emergency vehicle, so that no second
\* vehicle overwrites the grant)
C22_GrantedDirection ==
    [][(EmergencyPriorityEffect /\ Len(EmergencyVehicles(vehicles)) = 1)
       => LET ev == EmergencyVehicles(vehicles)[1]
          IN  \A i \in IntersectionIds :
                  InPreemptionWindow(revision, ev, i)
                      => GrantAsClaimed(ev, i) \in HoldingGreen(revision, intersections'[i])]_vars

\* revision A: a vehicle that will turn right at intersection 1 is still
\* going NORTH on its way through intersection 3, which shows GREEN to the
\* east and RED to the north
C22_Witness ==
    /\ revision = "A"
    /\ Len(vehicles) = 1
    /\ vehicles[1].isEmergency
    /\ vehicles[1].turnDirection = "right"
    /\ vehicles[1].direction = "NORTH"
    /\ InPreemptionWindow("A", vehicles[1], 3)
    /\ intersections[3].emergencyOverride
    /\ intersections[3].signals["east"].phase = "GREEN"
    /\ intersections[3].signals["north"].phase = "RED"


\* the window of the claim: the intersection lies ahead of the vehicle in its
\* direction of travel and PREEMPTION_MIN_DISTANCE < d <= DETECTION_DISTANCE
WindowAsClaimed(ev, id) ==
    /\ LiesAhead(ev.direction, ev.x, ev.y, id)
    /\ Farther(Dist2To(ev, id), PREEMPTION_MIN_DISTANCE)
    /\ Dist2To(ev, id) <= Sq(Px(DETECTION_DISTANCE))

\* some emergency vehicle of the list has intersection id in that window
SomeEmergencyInWindow(id) ==
    \E k \in 1 .. Len(vehicles) :
        vehicles[k].isEmergency /\ WindowAsClaimed(vehicles[k], id)

\* C23: in a preemption pass an intersection begins (or renews) its override
\* for an emergency vehicle exactly when the intersection lies ahead of the
\* vehicle in its current direction of travel and the distance d satisfies
\* PREEMPTION_MIN_DISTANCE < d <= DETECTION_DISTANCE; an intersection behind
\* the vehicle never gains an override from it
C23_OverrideOnlyAhead ==
    [][EmergencyPriorityEffect
       => \A i \in IntersectionIds :
              /\ SomeEmergencyInWindow(i) => intersections'[i].emergencyOverride
              /\ (/\ intersections'[i].emergencyOverride
                  /\ intersections'[i] # intersections[i])
                 => SomeEmergencyInWindow(i)]_vars

\* revision A: an intersection is under override although it lies ahead of no
\* emergency vehicle, and an emergency vehicle that has passed it is between
\* PREEMPTION_MIN_DISTANCE and DETECTION_DISTANCE behind it
C23_Witness ==
    /\ revision = "A"
    /\ ~effectPending
    /\ \E i \in IntersectionIds :
           /\ intersections[i].emergencyOverride
           /\ ~SomeEmergencyInWindow(i)
           /\ \E k \in 1 .. Len(vehicles) :
                  /\ vehicles[k].isEmergency
                  /\ ~LiesAhead(vehicles[k].direction, vehicles[k].x, vehicles[k].y, i)
                  /\ InPreemptionWindow("A", vehicles[k], i)


\* every timer of the intersection has the value its phase starts with (RED
\* starts with 0 in the initial state and with TIMING.GREEN after a YELLOW)
FreshTimers(rev, int) ==
    CASE rev = "C" -> int.phaseTime = 0
      [] rev = "D" -> int.timer = (IF int.phase \in {"NS_GREEN", "EW_GREEN"}
                                   THEN OriginalGreen ELSE OriginalYellow)
      [] OTHER ->
           \A d \in DirKeys :
               CASE int.signals[d].phase = "GREEN"  -> int.signals[d].timer = TimingGreen(rev)
                 [] int.signals[d].phase = "YELLOW" -> int.signals[d].timer = TimingYellow(rev)
                 [] OTHER -> int.signals[d].timer \in {0, TimingGreen(rev)}

\* C24: when an intersection's emergencyOverride is reset to false, the
\* timer-driven cycling resumes with fresh timers: no timer value left over
\* from before or during the override is carried into the resumed cycle
C24_ResumesWithFreshTimers ==
    [][\A i \in IntersectionIds :
           (intersections[i].emergencyOverride /\ ~intersections'[i].emergencyOverride)
               => FreshTimers(revision, intersections'[i])]_vars

\* revision D after an override: no intersection is overridden any more, and
\* intersection 3, which an emergency vehicle has left behind, runs on a green
\* timer that differs from the one of intersection 1, with which it ticked in
\* step before the override
C24_Witness ==
    /\ revision = "D"
    /\ \A i \in IntersectionIds : ~intersections[i].emergencyOverride
    /\ \E k \in 1 .. Len(vehicles) :
           vehicles[k].isEmergency /\ Farther(Dist2To(vehicles[k], 3), EMERGENCY_CLEAR_DISTANCE)
    /\ intersections[3].phase \in {"NS_GREEN", "EW_GREEN"}
    /\ intersections[3].timer # intersections[1].timer
    /\ intersections[3].timer # OriginalGreen


\* some emergency vehicle of the list is within DETECTION_DISTANCE of
\* intersection id
EmergencyNear(id) ==
    \E e \in 1 .. Len(vehicles) :
        vehicles[e].isEmergency /\ Closer(Dist2To(vehicles[e], id), DETECTION_DISTANCE)

\* C25: the emergency-approach rule stops a non-emergency vehicle only at an
\* intersection that some emergency vehicle is within DETECTION_DISTANCE of,
\* and only while the vehicle is approaching it; a vehicle near an
\* intersection that no emergency vehicle is within DETECTION_DISTANCE of
\* obeys only its own signal.  So a tick that gives a vehicle the status
\* 'stopped' although no signal in range shows it RED or YELLOW does so at an
\* intersection ahead of the vehicle with an emergency vehicle near it
C25_StopsOnlyWhereEmergencyNear ==
    [][\A k \in 1 .. Len(vehicles), j \in 1 .. Len(vehicles') :
           (/\ ~vehicles[k].isEmergency
            /\ vehicles'[j].id = vehicles[k].id
            /\ vehicles'[j] # vehicles[k]
            /\ vehicles'[j].status = "stopped"
            /\ ~FacesRedOrYellow(vehicles[k]))
           => \E i \in IntersectionIds :
                  /\ Closer(Dist2To(vehicles[k], i), INTERSECTION_CHECK_DISTANCE)
                  /\ LiesAhead(vehicles[k].direction, vehicles[k].x, vehicles[k].y, i)
                  /\ EmergencyNear(i)]_vars

\* a car stands with the status 'stopped' in the check distance of an
\* intersection that shows it GREEN and that no emergency vehicle is near,
\* while an emergency vehicle is near another intersection
C25_Witness ==
    \E k \in 1 .. Len(vehicles), i \in IntersectionIds :
        /\ ~vehicles[k].isEmergency
        /\ vehicles[k].status = "stopped"
        /\ Closer(Dist2To(vehicles[k], i), INTERSECTION_CHECK_DISTANCE)
        /\ intersections[i].signals[Lower(vehicles[k].direction)].phase = "GREEN"
        /\ ~EmergencyNear(i)
        /\ \E n \in IntersectionIds : EmergencyNear(n)


\* the vehicle is inside the boundary of an intersection that some emergency
\* vehicle is within DETECTION_DISTANCE of
InBoxWithEmergencyNear(v) ==
    \E i \in IntersectionIds : IsInIntersection(revision, v, i) /\ EmergencyNear(i)

\* C26: a non-emergency vehicle that is moving inside an intersection's
\* boundary while an emergency vehicle is within DETECTION_DISTANCE of that
\* intersection keeps moving until it has left the boundary: no step stops
\* it, be it for its signal, for the emergency-approach rule or for queueing
\* behind a vehicle stopped on the exit side
C26_ClearsTheBox ==
    [][\A k \in 1 .. Len(vehicles), j \in 1 .. Len(vehicles') :
           (/\ ~vehicles[k].isEmergency
            /\ ~vehicles[k].stopped
            /\ InBoxWithEmergencyNear(vehicles[k])
            /\ vehicles'[j].id = vehicles[k].id)
           => ~vehicles'[j].stopped]_vars

\* a car stands in the queue inside the boundary of an intersection, behind a
\* stopped vehicle that is outside the boundary, while an emergency vehicle is
\* within DETECTION_DISTANCE of that intersection
C26_Witness ==
    \E k, a \in 1 .. Len(vehicles) :
        /\ ~vehicles[k].isEmergency
        /\ vehicles[k].status = "stopped (queue)"
        /\ InBoxWithEmergencyNear(vehicles[k])
        /\ ~vehicles[a].isEmergency
        /\ vehicles[a].status = "stopped"
        /\ AheadInLane(vehicles[k], vehicles[a])
        /\ ~InSomeIntersection(revision, vehicles[a])


(* SpecClearance: revision A, a car going WEST on the bottom road, whose   *)
(* first signal is GREEN, then an emergency vehicle on the same route.     *)

SpawnClearance ==
    \/ statistics.totalVehicles = 0 /\ SpawnRegular({"car"}, {7})
    \/ statistics.totalVehicles = 1 /\ SpawnEmergency({"null"}, {7})

NextClearance ==
    \/ SignalTick
    \/ VehicleTick
    \/ EmergencyPriorityEffect
    \/ SpawnClearance

SpecClearance == InitQueue /\ [][NextClearance]_vars

\* v has driven past the centre of intersection id and out of its box
HasPassed(v, id) ==
    /\ LiesAhead(OppositeDirection(v.direction), v.x, v.y, id)
    /\ ~InSomeIntersection(revision, v)

\* v is in the lane and direction of the emergency vehicle recorded for
\* intersection id and lies between that vehicle and the intersection
BetweenEmergencyAndIntersection(v, id) ==
    LET k == QueueClearanceNeeded(revision, vehicles, id)
    IN  /\ k # 0
        /\ vehicles[k].direction = v.direction
        /\ AheadInLane(vehicles[k], v)
        /\ ~HasPassed(v, id)

\* C27: emergency clearance is granted in a tick only to a non-emergency
\* vehicle that is in the same lane and direction as a blocked emergency
\* vehicle and lies between that emergency vehicle and an upcoming
\* intersection (never to one that has passed the intersection or is behind
\* the emergency vehicle), and a vehicle holding clearance is not stopped by
\* its red signal in that tick
C27_ClearanceOnlyBetween ==
    \A k \in 1 .. Len(vehicles) :
        AllowedToMoveForEmergency(revision, vehicles, vehicles[k])
            => /\ ~vehicles[k].isEmergency
               /\ \E id \in IntersectionIds :
                      BetweenEmergencyAndIntersection(vehicles[k], id)
               /\ \A n \in 1 .. Len(TickOf(vehicles[k])) :
                      TickOf(vehicles[k])[n].status # "stopped"

\* a car holds clearance although every intersection for which clearance is
\* needed lies behind it: it has passed the intersection the emergency
\* vehicle behind it is driving up to
C27_Witness ==
    \E k \in 1 .. Len(vehicles) :
        /\ ~vehicles[k].isEmergency
        /\ AllowedToMoveForEmergency(revision, vehicles, vehicles[k])
        /\ \A i \in IntersectionIds :
               QueueClearanceNeeded(revision, vehicles, i) # 0
                   => HasPassed(vehicles[k], i)


\* the current target of v is a waypoint of its path that is not the last one
TargetsIntermediateWaypoint(v) ==
    /\ v.path # << >>
    /\ v.pathIndex + 1 < Len(v.path)

\* C28: a vehicle following a waypoint path is removed only when it reaches
\* its final waypoint or destination: a kinematics tick never removes a vehicle
\* whose current target is an intermediate waypoint, and when such a vehicle is
\* within WAYPOINT_REACH_DISTANCE of that waypoint the tick advances pathIndex
\* by one and retargets it to the next waypoint, for every speed multiplier
\* and every turn route
C28_RemovedOnlyAtFinalWaypoint ==
    [][VehicleTick =>
          \A k \in 1 .. Len(vehicles) :
              TargetsIntermediateWaypoint(vehicles[k])
              => /\ Present(vehicles[k].id, vehicles')
                 /\ Closer(DistSq(vehicles[k].x, vehicles[k].y,
                                  vehicles[k].targetX, vehicles[k].targetY),
                           WAYPOINT_REACH_DISTANCE)
                    => \A w \in SameVehicleIn(vehicles', vehicles[k]) :
                           /\ w.pathIndex = vehicles[k].pathIndex + 1
                           /\ w.targetX = vehicles[k].path[w.pathIndex + 1].x
                           /\ w.targetY = vehicles[k].path[w.pathIndex + 1].y
      ]_vars

\* a turning vehicle is within DESTINATION_REACH_DISTANCE of the waypoint in
\* the intersection, with the exit waypoint still to come
C28_Witness ==
    \E k \in 1 .. Len(vehicles) :
        /\ TargetsIntermediateWaypoint(vehicles[k])
        /\ vehicles[k].turnDirection \in {"left", "right"}
        /\ Closer(DistSq(vehicles[k].x, vehicles[k].y,
                         vehicles[k].targetX, vehicles[k].targetY),
                  DESTINATION_REACH_DISTANCE)


(* SpecConvoy: revision A, a car going WEST on the bottom road, then two   *)
(* emergency vehicles on the same route.                                   *)

SpawnConvoy ==
    \/ statistics.totalVehicles = 0 /\ SpawnRegular({"car"}, {7})
    \/ statistics.totalVehicles \in {1, 2} /\ SpawnEmergency({"null"}, {7})

NextConvoy ==
    \/ SignalTick
    \/ VehicleTick
    \/ EmergencyPriorityEffect
    \/ SpawnConvoy

SpecConvoy == InitQueue /\ [][NextConvoy]_vars

\* the vehicle list in the order given by the permutation p of its indices
Reordered(p) == [i \in 1 .. Len(vehicles) |-> vehicles[p[i]]]

\* what the kinematics tick makes of v when the list is in the order p
TickOfIn(p, v) ==
    UpdateVehicle(revision, simulationSpeed, Reordered(p), intersections, v)

\* C29: one kinematics tick computes every vehicle's next state from the
\* pre-tick vehicle set and the intersections only: for every permutation of
\* the vehicle list, including the relative order of emergency vehicles, the
\* tick yields the same post-tick state for every vehicle
C29_OrderIndependent ==
    \A k \in 1 .. Len(vehicles) :
        LET inListOrder == TickOf(vehicles[k])
        IN  \A p \in Permutations(1 .. Len(vehicles)) :
                (\E i \in 1 .. Len(vehicles) : p[i] # i)
                    => TickOfIn(p, vehicles[k]) = inListOrder

\* two blocked emergency vehicles record the same intersection in
\* queueClearanceNeeded, and a car has clearance against one of them only
C29_Witness ==
    \E e1, e2, k \in 1 .. Len(vehicles) :
        /\ e1 # e2
        /\ vehicles[e1].isEmergency /\ IsBlocked(vehicles, vehicles[e1])
        /\ vehicles[e2].isEmergency /\ IsBlocked(vehicles, vehicles[e2])
        /\ ~vehicles[k].isEmergency
        /\ \E p \in Permutations(1 .. Len(vehicles)) :
               AllowedToMoveForEmergency(revision, Reordered(p), vehicles[k])
                   # AllowedToMoveForEmergency(revision, vehicles, vehicles[k])


\* the preemption computed from the current vehicle list is in force: running
\* the emergency priority effect again would change no intersection
PreemptionApplied ==
    \A i \in IntersectionIds :
        PreemptIntersection(revision, i, intersections[i], vehicles) = intersections[i]

\* the next timer callback may be a kinematics pass
KinematicsEnabled == ~isPaused /\ ~effectPending /\ VehicleIntervalDue

SpawnPair ==
    /\ statistics.totalVehicles < 2
    /\ \/ revision = "A" /\ SpawnEmergency({"null"}, {1, 11})
       \/ /\ revision = "B"
          /\ timerCalls <= MaxSpawnDelay
          /\ SpawnEmergency({"null"}, 1 .. 16)

InitPair == InitAt({"A", "B"}, {6})

NextPair ==
    \/ SignalTick
    \/ VehicleTick
    \/ EmergencyPriorityEffect
    \/ SpawnPair

SpecPair == InitPair /\ [][NextPair]_vars

\* indices of the emergency vehicles of vs inside the window of intersection id
InWindowAt(vs, id) ==
    {k \in 1 .. Len(vs) : vs[k].isEmergency /\ InPreemptionWindow(revision, vs[k], id)}

\* the direction the effect turns GREEN at intersection id for vehicle ev
TargetAt(ev, id) ==
    TargetDirection(revision, ev, id,
                    DistSq(ev.x, ev.y, IntersectionX(revision, id), IntersectionY(revision, id)))

LastOf(S) == CHOOSE k \in S : \A j \in S : j <= k

\* C31: when several emergency vehicles are inside the detection window of one
\* intersection in one preemption pass, the pass leaves GREEN exactly the
\* direction required by the last such vehicle in list order and sets the
\* override flag, wherever vehicles outside the window stand in the list
C31_LastWriteWins ==
    [][(EmergencyPriorityEffect /\ revision \in {"A", "B"}) =>
          \A i \in IntersectionIds :
              InWindowAt(vehicles, i) # {}
              => /\ intersections'[i].emergencyOverride
                 /\ HoldingGreen(revision, intersections'[i])
                        = {TargetAt(vehicles[LastOf(InWindowAt(vehicles, i))], i)}
      ]_vars

\* after a pass two emergency vehicles with different target directions are
\* inside the window of one intersection and the direction of the later one
\* is GREEN
C31_Witness ==
    /\ ~effectPending
    /\ revision = "B"
    /\ \E i \in IntersectionIds, k1, k2 \in 1 .. Len(vehicles) :
           /\ k1 < k2
           /\ {k1, k2} \subseteq InWindowAt(vehicles, i)
           /\ TargetAt(vehicles[k1], i) # TargetAt(vehicles[k2], i)
           /\ intersections[i].emergencyOverride
           /\ HoldingGreen(revision, intersections[i]) = {TargetAt(vehicles[k2], i)}


\* a faulty receiveV2IMessage turn map with left and right exchanged; C32 has
\* to tell it from SignalToGreen
SignalToGreenMirrored(direction, turnIntention) ==
    IF turnIntention = "right"
    THEN (CASE direction = "NORTH" -> "west" [] direction = "SOUTH" -> "east"
            [] direction = "EAST" -> "north" [] direction = "WEST" -> "south")
    ELSE IF turnIntention = "left"
    THEN (CASE direction = "NORTH" -> "east" [] direction = "SOUTH" -> "west"
            [] direction = "EAST" -> "south" [] direction = "WEST" -> "north")
    ELSE Lower(direction)

\* receiveV2IMessage: signalToGreen for message.direction, message.turnIntention
SignalToGreen(direction, turnIntention) ==
    IF turnIntention = "left"
    THEN (CASE direction = "NORTH" -> "west" [] direction = "SOUTH" -> "east"
            [] direction = "EAST" -> "north" [] direction = "WEST" -> "south")
    ELSE IF turnIntention = "right"
    THEN (CASE direction = "NORTH" -> "east" [] direction = "SOUTH" -> "west"
            [] direction = "EAST" -> "south" [] direction = "WEST" -> "north")
    ELSE Lower(direction)

\* the signal key as a direction of travel
ToUpperCase(key) ==
    CASE key = "north" -> "NORTH" [] key = "south" -> "SOUTH"
      [] key = "east" -> "EAST" [] key = "west" -> "WEST"

\* the heading after one turn according to the V2I turn map
Heading(d, turn) == ToUpperCase(SignalToGreen(d, turn))

\* targetDirection of the four-phase priority effect of part_005 for a vehicle
\* whose action at the intersection is its turn
PreemptionTurnMap(v) ==
    TargetDirection("B", [v EXCEPT !.plannedTurnIntersectionId = 1], 1, 0)

\* the vehicle is on a turn route and still on its approach
OnApproachOfTurn(v) ==
    /\ v.isEmergency
    /\ v.turnDirection \in {"left", "right"}
    /\ v.path # << >>
    /\ v.pathIndex <= 1

\* C32: the turn mapping is consistent for all four approach directions: the
\* turnTo of every turn route equals the preemption turn map and the V2I turn
\* map for the same (direction, turn); right is the clockwise successor
\* (NORTH, EAST, SOUTH, WEST, NORTH), left is its inverse, so left(right(d)) = d
\* and four right turns return to d
C32_TurnMapConsistent ==
    /\ \A k \in 1 .. Len(vehicles) :
           OnApproachOfTurn(vehicles[k])
           => /\ Lower(vehicles[k].turnTo)
                     = SignalToGreen(vehicles[k].direction, vehicles[k].turnDirection)
              /\ Lower(vehicles[k].turnTo) = PreemptionTurnMap(vehicles[k])
              /\ vehicles[k].turnTo
                     = IF vehicles[k].turnDirection = "right"
                       THEN Clockwise(vehicles[k].direction)
                       ELSE CounterClockwise(vehicles[k].direction)
    /\ \A d \in {"NORTH", "EAST", "SOUTH", "WEST"} :
           /\ Heading(d, "right") = Clockwise(d)
           /\ Heading(d, "left") = CounterClockwise(d)
           /\ Heading(Heading(d, "right"), "left") = d
           /\ Heading(Heading(d, "left"), "right") = d
           /\ Heading(Heading(Heading(Heading(d, "right"), "right"), "right"), "right") = d

\* a vehicle turning left from the SOUTH approach is on its way to the
\* intersection with turnTo EAST
C32_Witness ==
    \E k \in 1 .. Len(vehicles) :
        /\ OnApproachOfTurn(vehicles[k])
        /\ vehicles[k].direction = "SOUTH"
        /\ vehicles[k].turnDirection = "left"
        /\ vehicles[k].turnTo = "EAST"
        /\ vehicles[k].pathIndex = 1


(* SpecBroadcast: revisions A and B at 3x, one emergency vehicle on a turn  *)
(* route or a straight route, with the V2I broadcast interval.             *)

SpawnBroadcast ==
    /\ statistics.totalVehicles = 0
    /\ revision = "B" => timerCalls <= MaxSpawnDelay
    /\ \/ SpawnEmergency({"null"}, {1, 11})
       \/ SpawnTurning({"left", "right"}, 1 .. 4)

NextBroadcast ==
    \/ SignalTick
    \/ VehicleTick
    \/ EmergencyPriorityEffect
    \/ SpawnBroadcast
    \/ BoundedV2IBroadcast

SpecBroadcast == Init /\ [][NextBroadcast]_vars

\* the action the receiver of the revision reads from a message:
\* message.turnIntention in revision A, message.actionAtThisIntersection in B
ActionRead(rev, m) ==
    IF rev = "A" THEN m.turnIntention ELSE m.actionAtThisIntersection

\* id is an intersection ahead of ev that no other intersection ahead is
\* nearer than
NearestAhead(ev, id) ==
    /\ IsInPath(revision, ev.direction, ev.x, ev.y, id)
    /\ \A j \in IntersectionIds :
           IsInPath(revision, ev.direction, ev.x, ev.y, j)
               => Dist2To(ev, id) <= Dist2To(ev, j)

\* message m of vehicle ev is as the claim describes
MessageAsClaimed(ev, m) ==
    /\ Len(m.targets) = 1
    /\ NearestAhead(ev, m.targets[1])
    /\ Farther(Dist2To(ev, m.targets[1]), V2I_COMMUNICATION_MIN_DISTANCE)
    /\ Dist2To(ev, m.targets[1]) <= Sq(Px(V2I_COMMUNICATION_MAX_DISTANCE))
    /\ ActionRead(revision, m)
           = IF ev.plannedTurnIntersectionId = m.targets[1]
             THEN (IF ev.turnDirection = "null" THEN "straight" ELSE ev.turnDirection)
             ELSE "straight"

\* C33: in each broadcast cycle every emergency vehicle emits at most one V2I
\* message, addressed to its nearest intersection ahead and only when the
\* distance d to it satisfies V2I_MIN < d <= V2I_MAX, and the action the message
\* carries for that intersection is the vehicle's turn intention if the
\* intersection is its plannedTurnIntersectionId and 'straight' otherwise
C33_OneMessageToNextIntersection ==
    [][V2IBroadcast =>
          \A k \in 1 .. Len(vehicles) :
              LET sent == {n \in 1 .. Len(v2iMessages') :
                             v2iMessages'[n].vehicleId = vehicles[k].id}
              IN  /\ Cardinality(sent) <= 1
                  /\ \A n \in sent : MessageAsClaimed(vehicles[k], v2iMessages'[n])
      ]_vars

\* revision A: the last broadcast carries one message that was handed to two
\* intersections, the second of them on another road
C33_Witness ==
    /\ revision = "A"
    /\ \E n \in 1 .. Len(v2iMessages), k \in 1 .. Len(vehicles) :
           /\ v2iMessages[n].vehicleId = vehicles[k].id
           /\ v2iMessages[n].targets = << 3, 4 >>
           /\ vehicles[k].direction = "NORTH"


\* the phase of direction d at intersection i changes from p to q in this step
PhaseChange(i, d, p, q) ==
    /\ intersections[i].signals[d].phase = p
    /\ intersections'[i].signals[d].phase = q

C35_NoStarvation ==
    \A i \in IntersectionIds, d \in DirKeys :
        (<>[](~intersections[i].emergencyOverride))
            => []<>(intersections[i].signals[d].phase = "GREEN")

\* revision A after an emergency vehicle has come and gone: no override is
\* left, and at some intersection the signal callback changes nothing any
\* more while one direction has not been GREEN since the start
C35_Witness ==
    /\ revision = "A"
    /\ vehicles = << >>
    /\ statistics.emergencyEvents = 1
    /\ ~effectPending
    /\ \A i \in IntersectionIds : ~intersections[i].emergencyOverride
    /\ \E i \in IntersectionIds :
           /\ TickIntersection(revision, simulationSpeed, intersections[i]) = intersections[i]
           /\ \E d \in DirKeys : intersections[i].signals[d].phase = "RED"


(* SpecStatistics: revision A at 3x with the counters of the statistics     *)
(* panel: up to MaxSpawns vehicles (a car or an emergency vehicle going     *)
(* EAST on the top road), each spawned while the vehicles before it have    *)
(* left or are still left of the canvas, removed at any time, and the V2I   *)
(* broadcast interval.                                                      *)

SpawnStatistics ==
    /\ statistics.totalVehicles < MaxSpawns
    /\ \A k \in 1 .. Len(vehicles) : vehicles[k].x < 0
    /\ \/ SpawnRegular({"car"}, {1})
       \/ SpawnEmergency({"null"}, {1})

NextStatistics ==
    \/ SignalTick
    \/ VehicleTick
    \/ EmergencyPriorityEffect
    \/ SpawnStatistics
    \/ RemoveSome
    \/ BoundedV2IBroadcast

SpecStatistics == InitPause /\ [][NextStatistics]_vars

\* the step appends a vehicle to the list: the only way a vehicle is spawned
SpawnStep == Len(vehicles') = Len(vehicles) + 1

\* the step spawns an emergency vehicle
EmergencySpawnStep == SpawnStep /\ vehicles'[Len(vehicles')].isEmergency

\* C36: the statistics follow the command history.  totalVehicles starts at
\* 0, grows by one in every step that spawns a vehicle and changes in no other
\* step, so it equals the number of vehicles ever spawned, never decreases and
\* is at least the number of active vehicles; emergencyEvents starts at 0,
\* grows by one with every emergency spawn and changes in no other step, and is
\* at most totalVehicles; v2iBroadcasts never decreases
C36_StatisticsFollowHistory ==
    /\ statistics.totalVehicles = 0
    /\ statistics.emergencyEvents = 0
    /\ [](/\ statistics.totalVehicles >= Len(vehicles)
          /\ statistics.emergencyEvents <= statistics.totalVehicles)
    /\ [][/\ statistics'.totalVehicles =
                 statistics.totalVehicles + (IF SpawnStep THEN 1 ELSE 0)
          /\ statistics'.emergencyEvents =
                 statistics.emergencyEvents + (IF EmergencySpawnStep THEN 1 ELSE 0)
          /\ statistics'.v2iBroadcasts >= statistics.v2iBroadcasts]_vars

\* a car and an emergency vehicle have been spawned, one of the two has left
\* the list again, and a broadcast has been counted
C36_Witness ==
    /\ statistics.totalVehicles = 2
    /\ statistics.emergencyEvents = 1
    /\ Len(vehicles) = 1
    /\ statistics.v2iBroadcasts >= 1


\* C37: whenever the vehicle list holds no emergency vehicle and the priority
\* effect has run for that list, every intersection has emergencyOverride
\* false and emergencyTurnDirection null, whether the last emergency vehicle
\* reached its destination or was taken out by removeVehicle
C37_NoEmergencyNoOverride ==
    (~effectPending /\ EmergencyVehicles(vehicles) = << >>)
        => \A id \in IntersectionIds :
               /\ ~intersections[id].emergencyOverride
               /\ revision # "D" => intersections[id].emergencyTurnDirection = "null"

\* revision A after the only emergency vehicle has left and the effect has
\* run: a car is still on the road, and an intersection still shows the GREEN
\* that an override gave to a direction other than its initial one
C37_Witness ==
    /\ revision = "A"
    /\ ~effectPending
    /\ statistics.emergencyEvents = 1
    /\ EmergencyVehicles(vehicles) = << >>
    /\ vehicles # << >>
    /\ \E id \in IntersectionIds :
           /\ HoldingGreen(revision, intersections[id]) # {InitialGreen(id)}
           /\ ~intersections[id].emergencyOverride
           /\ intersections[id].emergencyTurnDirection = "null"


\* C38: in the two-phase controller with currentPhase and phaseTime, whenever
\* emergencyOverride is false at an intersection its displayed signals are
\* those of its currentPhase (north-south: north and south GREEN, east and
\* west RED; east-west: the reverse), also after an override that granted the
\* other axis has been cleared
C38_SignalsAgreeWithPhase ==
    revision = "C" =>
        \A i \in IntersectionIds :
            ~intersections[i].emergencyOverride
                => intersections[i].signals = TwoPhaseSignals(intersections[i].currentPhase)

\* an emergency vehicle is still on the road, farther than
\* EMERGENCY_CLEAR_DISTANCE from an intersection whose override has been
\* cleared; the intersection shows the axis of the vehicle, and its
\* currentPhase names the other axis
C38_Witness ==
    /\ revision = "C"
    /\ ~effectPending
    /\ \E i \in IntersectionIds, k \in 1 .. Len(vehicles) :
          /\ vehicles[k].isEmergency
          /\ Farther(Dist2To(vehicles[k], i), EMERGENCY_CLEAR_DISTANCE)
          /\ ~intersections[i].emergencyOverride
          /\ intersections[i].signals = TwoPhaseOverrideSignals(vehicles[k].direction)
          /\ intersections[i].signals # TwoPhaseSignals(intersections[i].currentPhase)


\* the canonical turn route a turning vehicle was spawned on: the entry of
\* emergencyTurnRoutes[turnDirection] with the vehicle's approach direction
TurnRouteOf(v) ==
    LET routes == EmergencyTurnRoutes(revision, v.turnDirection)
    IN  routes[CHOOSE t \in 1 .. Len(routes) : routes[t].direction = v.direction]

\* a turning emergency vehicle that is still on its approach
OnTurnApproach(v) ==
    /\ v.isEmergency
    /\ v.turnDirection \in {"left", "right"}
    /\ v.pathIndex = 1

\* the vehicle is within WAYPOINT_REACH_DISTANCE of its turn waypoint
ReachesTurnWaypoint(v) ==
    /\ OnTurnApproach(v)
    /\ Closer(DistSq(v.x, v.y, v.targetX, v.targetY), WAYPOINT_REACH_DISTANCE)

\* C39: for every canonical turn route of the revision with route planning,
\* plannedTurnIntersectionId is the intersection whose boundary contains the
\* route's turnAt point, and a vehicle that reaches its turn waypoint is
\* inside the planned intersection
C39_PlannedWhereTheRouteTurns ==
    revision = "B" =>
        \A k \in 1 .. Len(vehicles) :
            OnTurnApproach(vehicles[k])
            => /\ IsInIntersection(revision,
                                   [x |-> TurnRouteOf(vehicles[k]).turnAtX,
                                    y |-> TurnRouteOf(vehicles[k]).turnAtY],
                                   vehicles[k].plannedTurnIntersectionId)
               /\ ReachesTurnWaypoint(vehicles[k])
                      => CurrentIntersectionId(revision, vehicles[k])
                             = vehicles[k].plannedTurnIntersectionId

\* a turning vehicle of revision B stands on its turn waypoint inside
\* intersection 1, where its route turns, and its planned intersection is
\* another one
C39_Witness ==
    /\ revision = "B"
    /\ \E k \in 1 .. Len(vehicles) :
          /\ ReachesTurnWaypoint(vehicles[k])
          /\ IsInIntersection(revision, vehicles[k], 1)
          /\ IsInIntersection(revision,
                              [x |-> TurnRouteOf(vehicles[k]).turnAtX,
                               y |-> TurnRouteOf(vehicles[k]).turnAtY], 1)
          /\ vehicles[k].plannedTurnIntersectionId # 1

====
